---- MODULE Spec2Model ----
(***************************************************************************)
(* A model of the code-analyzer orchestrator (packages/code-analyzer-core): *)
(* the engine registry (addEnginePlugin), the rule selector algebra         *)
(* (selectRules), the run pipeline (run) and the result model.              *)
(*                                                                          *)
(* Strings are sequences of one-character strings, so that toLowerCase,     *)
(* split, startsWith and the sorts are computed as the code computes them.  *)
(* JavaScript numbers that may be fractional are kept in half units         *)
(* (the value times Halves), so that Number.isInteger can fail.              *)
(***************************************************************************)
EXTENDS Integers, Sequences, FiniteSets, TLC

VARIABLES
    config,      \* CodeAnalyzer.config: the rule overrides given at construction
    engines,     \* CodeAnalyzer.engines: Map<string, Engine> in insertion order
    allRules,    \* CodeAnalyzer.allRules: RuleImpl[]
    emitted,     \* the events the orchestrator emitted during the latest API call
    call,        \* the latest addEnginePlugin or run call: its argument and how it ended
    adds,        \* number of addEnginePlugin calls made so far
    selectors,   \* the arguments of the selectRules call, once it is made
    selection,   \* the RuleSelection that selectRules returned (its ruleMap), once it has
    pc,          \* where the run call stands: "idle", "loop", "running", "returned", "failed"
    runOptions,        \* the RunOptions given to run, once it is called
    engineRunOptions,  \* run's local engineRunOptions, once extractEngineRunOptions returned
    engineIndex, \* run's position in ruleSelection.getEngineNames() (1-based)
    engineEvents,\* number of events that engines have emitted during the run
    runResults,  \* run's local runResults: the EngineRunResults added so far, in order
    history,     \* what happened during the run, in order: events emitted and runRules calls
    absolutePaths,  \* the argument of a removeRedundantPaths call
    filteredPaths,  \* what that call returned, once it has
    startPointStr,          \* the argument of an extractEnginePathStartPoints call
    startPointRecords,      \* what that call returned or threw, once it has
    returnedLocation,       \* a CodeLocation that an engine returns in a violation
    locationOutcome,        \* what validation and the results made of it, once they have
    reportedViolation,      \* a violation an engine returns and the rule it is bound to
    reportedUrls,           \* what getResourceUrls() of its ViolationImpl returned, once it has
    clock,          \* CodeAnalyzer.clock: the time that its now() returns
    listeners,      \* the callbacks registered with CodeAnalyzer.onEvent, in order
    instances,      \* the engine instances that plugins created, in order of creation
    engineEmitted,  \* the events that engine instances emitted, in order, each with
                    \* the time of the clock then
    published,      \* the events that the orchestrator emitted on its channel, in order
    received,       \* the calls of the registered callbacks, in order
    executor,       \* the fields of an AdvancedRetireJsExecutor
    tempFolder,     \* the temporary directories made and the files copied into them
    executions      \* the execute() calls on the executor: where each stands

regVars == <<config, engines, allRules, emitted, call, adds>>
selVars == <<selectors, selection>>
runVars == <<pc, runOptions, engineRunOptions, engineIndex, engineEvents, runResults, history>>
eventVars == <<clock, listeners, instances, engineEmitted, published, received>>
scanVars == <<executor, tempFolder, executions>>
pathVars == <<absolutePaths, filteredPaths, startPointStr, startPointRecords,
              returnedLocation, locationOutcome, reportedViolation, reportedUrls,
              eventVars, scanVars>>
vars == <<config, engines, allRules, emitted, call, adds, selectors, selection,
          pc, runOptions, engineRunOptions, engineIndex, engineEvents, runResults, history,
          absolutePaths, filteredPaths, startPointStr, startPointRecords,
          returnedLocation, locationOutcome, reportedViolation, reportedUrls,
          clock, listeners, instances, engineEmitted, published, received,
          executor, tempFolder, executions>>

(***************************************************************************)
(* Bounds of the model.                                                     *)
(***************************************************************************)
MaxAdds == 2
MaxSelectors == 2

(***************************************************************************)
(* Strings.                                                                 *)
(***************************************************************************)
UpperCaseLetters == <<"A","B","C","D","E","F","G","H","I","J","K","L","M",
                      "N","O","P","Q","R","S","T","U","V","W","X","Y","Z">>
LowerCaseLetters == <<"a","b","c","d","e","f","g","h","i","j","k","l","m",
                      "n","o","p","q","r","s","t","u","v","w","x","y","z">>

\* The lower-case letter of each upper-case letter
UpperToLower ==
    [c \in {UpperCaseLetters[i] : i \in 1..Len(UpperCaseLetters)} |->
        LowerCaseLetters[CHOOSE i \in 1..Len(UpperCaseLetters) : UpperCaseLetters[i] = c]]

toLowerCaseChar(c) == IF c \in DOMAIN UpperToLower THEN UpperToLower[c] ELSE c

\* A mutant of toLowerCase: the string as it is
toLowerCaseSameString(s) == s

\* String.prototype.toLowerCase
toLowerCase(s) == [i \in 1..Len(s) |-> toLowerCaseChar(s[i])]

\* String.prototype.split with a one-character separator
RECURSIVE split(_, _)
split(s, sep) ==
    IF \A i \in 1..Len(s) : s[i] # sep
    THEN <<s>>
    ELSE LET i == CHOOSE k \in 1..Len(s) : s[k] = sep /\ \A j \in 1..(k-1) : s[j] # sep
         IN  <<SubSeq(s, 1, i-1)>> \o split(SubSeq(s, i+1, Len(s)), sep)

\* Array.prototype.map
Map(f(_), s) == [i \in 1..Len(s) |-> f(s[i])]

Range(s) == {s[i] : i \in 1..Len(s)}

(***************************************************************************)
(* Rules (rules.ts of the engine api and of core).                          *)
(***************************************************************************)
Critical == 1
High == 2
Moderate == 3
Low == 4
Info == 5
SeverityLevels == {Critical, High, Moderate, Low, Info}

\* SeverityLevel[sevNumber]: the reverse mapping of the numeric enum
SeverityLevelName(sevNumber) ==
    CASE sevNumber = Critical -> <<"C","r","i","t","i","c","a","l">>
      [] sevNumber = High     -> <<"H","i","g","h">>
      [] sevNumber = Moderate -> <<"M","o","d","e","r","a","t","e">>
      [] sevNumber = Low      -> <<"L","o","w">>
      [] sevNumber = Info     -> <<"I","n","f","o">>

\* String(sevNumber) for a one-digit number
DecimalDigits == <<"1","2","3","4","5","6","7","8","9">>
String(n) == <<DecimalDigits[n]>>

\* new RuleImpl(engineName, ruleDesc)
RuleImpl(engineName, ruleDesc) == [engineName |-> engineName, ruleDesc |-> ruleDesc]

getSeverityLevel(rule) == rule.ruleDesc.severityLevel
getTags(rule) == rule.ruleDesc.tags
getName(rule) == rule.ruleDesc.name
getEngineName(rule) == rule.engineName

\* RuleImpl.matchesRuleSelector, the list of selectable tokens it builds
selectables(rule) ==
    LET sevNumber == getSeverityLevel(rule)
        sevName   == SeverityLevelName(sevNumber)
    IN  << <<"a","l","l">>,
           toLowerCase(getEngineName(rule)),
           toLowerCase(getName(rule)),
           toLowerCase(sevName),
           String(sevNumber) >> \o Map(toLowerCase, getTags(rule))

\* A mutant of matchesRuleSelector: one matching part is enough.
matchesRuleSelectorAnyPart(rule, ruleSelector) ==
    LET parts  == split(toLowerCase(ruleSelector), ":")
        tokens == selectables(rule)
    IN  \E i \in 1..Len(parts) : \E j \in 1..Len(tokens) : tokens[j] = parts[i]

\* RuleImpl.matchesRuleSelector
matchesRuleSelector(rule, ruleSelector) ==
    LET parts  == split(toLowerCase(ruleSelector), ":")
        tokens == selectables(rule)
    IN  \A i \in 1..Len(parts) : \E j \in 1..Len(tokens) : tokens[j] = parts[i]

(***************************************************************************)
(* RuleSelectionImpl: ruleMap is a Map<string, Rule[]>, kept as a sequence  *)
(* of entries in insertion order.                                           *)
(***************************************************************************)
EmptyRuleMap == <<>>

ruleMapHas(ruleMap, engineName) == \E i \in 1..Len(ruleMap) : ruleMap[i].engineName = engineName

\* RuleSelectionImpl.addRule
addRule(ruleMap, rule) ==
    LET engineName == getEngineName(rule)
        withKey == IF ruleMapHas(ruleMap, engineName) THEN ruleMap
                   ELSE Append(ruleMap, [engineName |-> engineName, rules |-> <<>>])
    IN  [i \in 1..Len(withKey) |->
            IF withKey[i].engineName = engineName
            THEN [withKey[i] EXCEPT !.rules = Append(@, rule)]
            ELSE withKey[i]]

\* RuleSelectionImpl.getCount
RECURSIVE getCount(_)
getCount(ruleMap) ==
    IF ruleMap = <<>> THEN 0 ELSE Len(Head(ruleMap).rules) + getCount(Tail(ruleMap))

\* RuleSelectionImpl.getEngineNames
getEngineNames(ruleMap) == [i \in 1..Len(ruleMap) |-> ruleMap[i].engineName]

\* RuleSelectionImpl.getRulesFor
getRulesFor(ruleMap, engineName) ==
    IF ruleMapHas(ruleMap, engineName)
    THEN ruleMap[CHOOSE i \in 1..Len(ruleMap) : ruleMap[i].engineName = engineName].rules
    ELSE <<>>

\* RuleSelectionImpl.getRule: whether it returns (TRUE) or throws (FALSE)
hasRule(ruleMap, engineName, ruleName) ==
    \E i \in 1..Len(getRulesFor(ruleMap, engineName)) :
        getName(getRulesFor(ruleMap, engineName)[i]) = ruleName

\* RuleSelectionImpl.getRule: the first rule of that name
getRule(ruleMap, engineName, ruleName) ==
    LET rules == getRulesFor(ruleMap, engineName)
    IN  rules[CHOOSE i \in 1..Len(rules) :
                 getName(rules[i]) = ruleName /\ \A j \in 1..(i-1) : getName(rules[j]) # ruleName]

Recommended == <<"R","e","c","o","m","m","e","n","d","e","d">>

\* CodeAnalyzer.selectRules, the loop over allRules
RECURSIVE selectInto(_, _, _)
selectInto(ruleMap, rules, sels) ==
    IF rules = <<>> THEN ruleMap
    ELSE selectInto(
            IF \E i \in 1..Len(sels) : matchesRuleSelector(Head(rules), sels[i])
            THEN addRule(ruleMap, Head(rules)) ELSE ruleMap,
            Tail(rules), sels)

\* A mutant of selectRules: without selectors every rule is selected
selectRulesAllByDefault(rules, sels) ==
    selectInto(EmptyRuleMap, rules, IF Len(sels) > 0 THEN sels ELSE << <<"a","l","l">> >>)

\* CodeAnalyzer.selectRules
selectRules(rules, sels) ==
    selectInto(EmptyRuleMap, rules, IF Len(sels) > 0 THEN sels ELSE <<Recommended>>)

(***************************************************************************)
(* Optional values (a field that may be undefined): <<>> or <<value>>.      *)
(***************************************************************************)
Undefined == <<>>
Defined(x) == <<x>>
isDefined(o) == o # <<>>
valueOf(o) == o[1]

(***************************************************************************)
(* Messages (messages.ts): getMessage(id, ...args), kept unformatted.       *)
(***************************************************************************)
getMessage(id, args) == [id |-> id, args |-> args]

(***************************************************************************)
(* Events (events.ts).                                                      *)
(***************************************************************************)
LogLevelError == 1
LogLevelWarn == 2
LogLevelInfo == 3
LogLevelDebug == 4
LogLevelFine == 5

\* CodeAnalyzer.emitLogEvent, as the event appended to the emitted ones
LogEvent(logLevel, message) == [type |-> "LogEvent", logLevel |-> logLevel, message |-> message]

(***************************************************************************)
(* Engines and plugins, the inputs of addEnginePlugin.  An engine is what   *)
(* the orchestrator can observe of it: its getName(), whether validate()    *)
(* throws, whether describeRules() throws and the descriptions it returns.  *)
(***************************************************************************)
ENGINE_API_VERSION == 1

stubEngine1 == <<"s","t","u","b","E","n","g","i","n","e","1">>
stubEngine2 == <<"s","t","u","b","E","n","g","i","n","e","2">>
invalidEngine == <<"i","n","v","a","l","i","d","E","n","g","i","n","e">>
repeatedRuleNameEngine == <<"r","e","p","e","a","t","e","d","R","u","l","e","N","a","m","e","E","n","g","i","n","e">>
future == <<"f","u","t","u","r","e">>
someEngine == <<"s","o","m","e","E","n","g","i","n","e">>
unusableEngine == <<"u","n","u","s","a","b","l","e","E","n","g","i","n","e">>

CodeStyle == <<"C","o","d","e","S","t","y","l","e">>
Security == <<"S","e","c","u","r","i","t","y">>
SomeNewTag == <<"S","o","m","e","N","e","w","T","a","g">>

\* A RuleDescription object.  object tells which object it is when an engine hands
\* out the same object on every describeRules() call; Undefined: an object made for
\* the call, which nothing else refers to.
RuleDescription(name, severityLevel, type, tags, resourceUrls) ==
    [name |-> name, severityLevel |-> severityLevel, type |-> type, tags |-> tags,
     resourceUrls |-> resourceUrls, object |-> Undefined]

\* The description object that an engine keeps and returns on every call
keptObject(object, ruleDescription) == [ruleDescription EXCEPT !.object = Defined(object)]

stub1RuleA == <<"s","t","u","b","1","R","u","l","e","A">>
stub1RuleB == <<"s","t","u","b","1","R","u","l","e","B">>
stub2RuleA == <<"s","t","u","b","2","R","u","l","e","A">>
invalidRule == <<"i","n","v","a","l","i","d","R","u","l","e">>
repeatedRule == <<"r","e","p","e","a","t","e","d","R","u","l","e">>

Engine(name, validateThrows, describeThrows, ruleDescriptions) ==
    [getName |-> name, validateThrows |-> validateThrows, describeThrows |-> describeThrows,
     describeRules |-> ruleDescriptions]

StubEngine1 ==
    Engine(stubEngine1, FALSE, FALSE,
        << RuleDescription(stub1RuleA, Low, "Standard", <<Recommended, CodeStyle>>, <<"urlA">>),
           RuleDescription(stub1RuleB, High, "Standard", <<Recommended, Security>>, <<"urlB">>) >>)

StubEngine2 ==
    Engine(stubEngine2, FALSE, FALSE,
        << RuleDescription(stub2RuleA, Moderate, "DataFlow", <<Recommended, Security>>, <<>>) >>)

\* An engine whose validate() throws; it describes one rule.
InvalidEngine ==
    Engine(invalidEngine, TRUE, FALSE,
        << RuleDescription(invalidRule, Info, "Standard", <<Recommended>>, <<>>) >>)

\* An engine whose validate() throws and whose describeRules() throws as well.
UnusableEngine == Engine(unusableEngine, TRUE, TRUE, <<>>)

FutureEngine == Engine(future, FALSE, FALSE, <<>>)

RepeatedRuleNameEngine ==
    Engine(repeatedRuleNameEngine, FALSE, FALSE,
        << RuleDescription(repeatedRule, Moderate, "DataFlow", <<Recommended, Security>>, <<>>),
           RuleDescription(repeatedRule, Low, "Standard", <<CodeStyle>>, <<>>) >>)

\* A plugin: getApiVersion(), getAvailableEngineNames() (or that it throws) and, for
\* each advertised name, the engine createEngine returns (Undefined: it throws).
EnginePlugin(apiVersion, namesThrow, names, created) ==
    [getApiVersion |-> apiVersion, namesThrow |-> namesThrow,
     getAvailableEngineNames |-> names, createEngine |-> created]

StubEnginePlugin ==
    EnginePlugin(ENGINE_API_VERSION, FALSE, <<stubEngine1, stubEngine2>>,
                 <<Defined(StubEngine1), Defined(StubEngine2)>>)
ContradictingEnginePlugin ==
    EnginePlugin(ENGINE_API_VERSION, FALSE, <<stubEngine1>>, <<Defined(StubEngine2)>>)
\* An engine failing validation followed by a valid engine, in one plugin.
InvalidEnginePlugin ==
    EnginePlugin(ENGINE_API_VERSION, FALSE, <<invalidEngine, stubEngine2>>,
                 <<Defined(InvalidEngine), Defined(StubEngine2)>>)
UnusableEnginePlugin ==
    EnginePlugin(ENGINE_API_VERSION, FALSE, <<unusableEngine>>, <<Defined(UnusableEngine)>>)
FutureEnginePlugin ==
    EnginePlugin(ENGINE_API_VERSION + 1, FALSE, <<future>>, <<Defined(FutureEngine)>>)
ThrowingPlugin1 == EnginePlugin(ENGINE_API_VERSION, TRUE, <<>>, <<>>)
ThrowingPlugin2 == EnginePlugin(ENGINE_API_VERSION, FALSE, <<someEngine>>, <<Undefined>>)
RepeatedRuleNameEnginePlugin ==
    EnginePlugin(ENGINE_API_VERSION, FALSE, <<repeatedRuleNameEngine>>,
                 <<Defined(RepeatedRuleNameEngine)>>)

Plugins == {StubEnginePlugin, ContradictingEnginePlugin, InvalidEnginePlugin,
            UnusableEnginePlugin, FutureEnginePlugin, ThrowingPlugin1, ThrowingPlugin2,
            RepeatedRuleNameEnginePlugin}

(***************************************************************************)
(* Configuration (config.ts): the rule overrides, one record per            *)
(* (engine, rule) with optional severity and optional tags.                 *)
(***************************************************************************)
RuleOverride(severity, tags) == [severity |-> severity, tags |-> tags]

DEFAULT_CONFIG == [rules |-> {}]

\* The overrides of test-data/sample-config-01.yaml that the tests describe.
SampleConfig01 ==
    [rules |-> { [engineName |-> stubEngine1, ruleName |-> stub1RuleB,
                  override |-> RuleOverride(Defined(Critical), Undefined)],
                 [engineName |-> stubEngine2, ruleName |-> stub2RuleA,
                  override |-> RuleOverride(Undefined, Defined(<<Security, SomeNewTag>>))] }]

Configs == {DEFAULT_CONFIG, SampleConfig01}

\* CodeAnalyzerConfig.getRuleOverrideFor
getRuleOverrideFor(conf, engineName, ruleName) ==
    IF \E o \in conf.rules : o.engineName = engineName /\ o.ruleName = ruleName
    THEN (CHOOSE o \in conf.rules : o.engineName = engineName /\ o.ruleName = ruleName).override
    ELSE RuleOverride(Undefined, Undefined)

(***************************************************************************)
(* The engine registry: CodeAnalyzer.addEnginePlugin and what it calls.     *)
(* The call threads a record st = [engines, allRules, emitted, error]:      *)
(* error is Undefined while the call runs and Defined(message) once it has  *)
(* thrown.                                                                  *)
(***************************************************************************)
enginesHas(map, engineName) == \E i \in 1..Len(map) : map[i].name = engineName

\* CodeAnalyzer.getEngineNames
registeredEngineNames(map) == [i \in 1..Len(map) |-> map[i].name]

\* CodeAnalyzer.getEngine: Undefined when no engine has that name
getEngine(map, engineName) ==
    IF enginesHas(map, engineName)
    THEN Defined(map[CHOOSE i \in 1..Len(map) : map[i].name = engineName].engine)
    ELSE Undefined

emitLogEvent(st, logLevel, message) ==
    [st EXCEPT !.emitted = Append(@, LogEvent(logLevel, message))]

throwError(st, message) == [st EXCEPT !.error = Defined(message)]

\* CodeAnalyzer.addEngineIfValid
addEngineIfValid(st, engineName, engine) ==
    IF enginesHas(st.engines, engineName)
    THEN emitLogEvent(st, LogLevelError, getMessage("DuplicateEngine", <<engineName>>))
    ELSE IF engineName # engine.getName
    THEN emitLogEvent(st, LogLevelError, getMessage("EngineNameContradiction", <<engineName, engine.getName>>))
    ELSE IF engine.validateThrows
    THEN emitLogEvent(st, LogLevelError, getMessage("EngineValidationFailed", <<engineName>>))
    ELSE emitLogEvent([st EXCEPT !.engines = Append(@, [name |-> engineName, engine |-> engine])],
                      LogLevelDebug, getMessage("EngineAdded", <<engineName>>))

\* validateRuleDescriptions: Undefined, or the first rule name seen a second time
\* A mutant of validateRuleDescriptions: no name counts as repeated
repeatedRuleNameNeverFound(ruleDescriptions) == Undefined

repeatedRuleName(ruleDescriptions) ==
    IF \E i \in 1..Len(ruleDescriptions) : \E j \in 1..(i-1) :
           ruleDescriptions[j].name = ruleDescriptions[i].name
    THEN Defined(ruleDescriptions[
            CHOOSE i \in 1..Len(ruleDescriptions) :
                /\ \E j \in 1..(i-1) : ruleDescriptions[j].name = ruleDescriptions[i].name
                /\ \A k \in 1..(i-1) : \A j \in 1..(k-1) :
                       ruleDescriptions[j].name # ruleDescriptions[k].name].name)
    ELSE Undefined

\* A mutant of updateRuleDescriptionWithOverrides: override tags are added to the
\* engine's tags
updateRuleDescriptionMergingTags(conf, engineName, ruleDescription) ==
    LET ruleOverride == getRuleOverrideFor(conf, engineName, ruleDescription.name)
        withSeverity == IF isDefined(ruleOverride.severity)
                        THEN [ruleDescription EXCEPT !.severityLevel = valueOf(ruleOverride.severity)]
                        ELSE ruleDescription
    IN  IF isDefined(ruleOverride.tags)
        THEN [withSeverity EXCEPT !.tags = @ \o valueOf(ruleOverride.tags)]
        ELSE withSeverity

\* CodeAnalyzer.updateRuleDescriptionWithOverrides, the description it returns
updateRuleDescriptionWithOverrides(conf, engineName, ruleDescription) ==
    LET ruleOverride == getRuleOverrideFor(conf, engineName, ruleDescription.name)
        withSeverity == IF isDefined(ruleOverride.severity)
                        THEN [ruleDescription EXCEPT !.severityLevel = valueOf(ruleOverride.severity)]
                        ELSE ruleDescription
    IN  IF isDefined(ruleOverride.tags)
        THEN [withSeverity EXCEPT !.tags = valueOf(ruleOverride.tags)]
        ELSE withSeverity

\* CodeAnalyzer.updateRuleDescriptionWithOverrides, the Debug events it emits
overrideLogEvents(conf, engineName, ruleDescription) ==
    LET ruleOverride == getRuleOverrideFor(conf, engineName, ruleDescription.name)
    IN  (IF isDefined(ruleOverride.severity)
         THEN <<LogEvent(LogLevelDebug, getMessage("RulePropertyOverridden",
                    <<"severity", ruleDescription.name, engineName>>))>>
         ELSE <<>>)
        \o
        (IF isDefined(ruleOverride.tags)
         THEN <<LogEvent(LogLevelDebug, getMessage("RulePropertyOverridden",
                    <<"tags", ruleDescription.name, engineName>>))>>
         ELSE <<>>)

\* What a description object holds now: a kept object that was cached before holds
\* what updateRuleDescriptionWithOverrides last wrote into it (lines 198 and 203 assign
\* to the engine's object), and every RuleImpl made of it refers to it
currentDescription(rules, ruleDescription) ==
    IF /\ isDefined(ruleDescription.object)
       /\ \E k \in 1..Len(rules) : rules[k].ruleDesc.object = ruleDescription.object
    THEN rules[CHOOSE k \in 1..Len(rules) :
                  rules[k].ruleDesc.object = ruleDescription.object].ruleDesc
    ELSE ruleDescription

\* The rules as they read once a description object has been written to
afterWriteTo(rules, ruleDescription) ==
    [k \in 1..Len(rules) |->
        IF isDefined(ruleDescription.object) /\ rules[k].ruleDesc.object = ruleDescription.object
        THEN [rules[k] EXCEPT !.ruleDesc = ruleDescription]
        ELSE rules[k]]

\* addEnginePlugin, lines 53-56: the loop that caches an engine's descriptions
RECURSIVE cacheRules(_, _, _, _)
cacheRules(st, conf, engineName, ruleDescriptions) ==
    IF ruleDescriptions = <<>> THEN st
    ELSE LET updated == updateRuleDescriptionWithOverrides(conf, engineName,
                            currentDescription(st.allRules, Head(ruleDescriptions)))
         IN  cacheRules(
                [st EXCEPT
                    !.emitted = @ \o overrideLogEvents(conf, engineName, Head(ruleDescriptions)),
                    !.allRules = Append(afterWriteTo(@, updated), RuleImpl(engineName, updated))],
                conf, engineName, Tail(ruleDescriptions))

\* addEnginePlugin, lines 47-56: the body of the loop, for the i-th advertised name
addEngineOfPlugin(st, conf, plugin, i) ==
    LET engineName == plugin.getAvailableEngineNames[i]
        created    == plugin.createEngine[i]
    IN  IF ~isDefined(created)
        THEN throwError(st, getMessage("PluginErrorFromCreateEngine", <<engineName>>))
        ELSE LET engine == valueOf(created)
                 added  == addEngineIfValid(st, engineName, engine)
             IN  IF engine.describeThrows
                 THEN throwError(added, getMessage("ErrorFromDescribeRules", <<engineName>>))
                 ELSE IF isDefined(repeatedRuleName(engine.describeRules))
                 THEN throwError(added, getMessage("EngineReturnedMultipleRulesWithSameName",
                          <<engineName, valueOf(repeatedRuleName(engine.describeRules))>>))
                 ELSE cacheRules(added, conf, engineName, engine.describeRules)

\* addEnginePlugin, line 46: the loop over the advertised names, from the i-th on
RECURSIVE addEnginesFrom(_, _, _, _)
addEnginesFrom(st, conf, plugin, i) ==
    IF i > Len(plugin.getAvailableEngineNames) \/ isDefined(st.error) THEN st
    ELSE addEnginesFrom(addEngineOfPlugin(st, conf, plugin, i), conf, plugin, i + 1)

\* A mutant of addEnginePlugin: the API version of the plugin is not looked at
addEnginePluginWithoutVersionCheck(st, conf, plugin) ==
    IF plugin.namesThrow
    THEN throwError(st, getMessage("PluginErrorFromGetAvailableEngineNames", <<>>))
    ELSE addEnginesFrom(st, conf, plugin, 1)

\* CodeAnalyzer.addEnginePlugin
addEnginePlugin(st, conf, plugin) ==
    LET fromFuture == plugin.getApiVersion > ENGINE_API_VERSION
    IN  IF fromFuture /\ plugin.namesThrow
        THEN throwError(st, getMessage("ErrorFromGetAvailableEngineNames", <<>>))
        ELSE LET warned == IF fromFuture
                           THEN emitLogEvent(st, LogLevelWarn, getMessage("EngineFromFutureApiDetected",
                                    <<plugin.getApiVersion, plugin.getAvailableEngineNames, ENGINE_API_VERSION>>))
                           ELSE st
             IN  IF plugin.namesThrow
                 THEN throwError(warned, getMessage("PluginErrorFromGetAvailableEngineNames", <<>>))
                 ELSE addEnginesFrom(warned, conf, plugin, 1)

(***************************************************************************)
(* Strings as JavaScript orders and searches them.                          *)
(***************************************************************************)
\* The characters of the model in ascending order of their UTF-16 code units
CodeUnits ==
    <<" ", "#", ".", "/", "0","1","2","3","4","5","6","7","8","9", ";",
      "A","B","C","D","E","F","G","H","I","J","K","L","M",
      "N","O","P","Q","R","S","T","U","V","W","X","Y","Z", "\\", "_",
      "a","b","c","d","e","f","g","h","i","j","k","l","m",
      "n","o","p","q","r","s","t","u","v","w","x","y","z">>

CharCode == [c \in Range(CodeUnits) |-> CHOOSE i \in 1..Len(CodeUnits) : CodeUnits[i] = c]

\* a < b for two strings, the order Array.prototype.sort() uses by default
stringLess(a, b) ==
    LET differ == {i \in 1..Len(a) : i <= Len(b) /\ a[i] # b[i]}
    IN  IF differ = {}
        THEN Len(a) < Len(b)
        ELSE LET d == CHOOSE i \in differ : \A j \in differ : i <= j
             IN  CharCode[a[d]] < CharCode[b[d]]

\* String.prototype.startsWith
startsWith(str, prefix) == Len(prefix) <= Len(str) /\ SubSeq(str, 1, Len(prefix)) = prefix

\* Array.prototype.sort with a comparator: the sort is stable, so an element comes
\* after the elements that are less and after the equal ones that preceded it.
sort(arr, less(_, _)) ==
    LET rank(i) == 1 + Cardinality({j \in 1..Len(arr) :
                        less(arr[j], arr[i]) \/ (~less(arr[i], arr[j]) /\ j < i)})
    IN  [k \in 1..Len(arr) |-> arr[CHOOSE i \in 1..Len(arr) : rank(i) = k]]

\* Array.prototype.join
RECURSIVE join(_, _)
join(arr, sep) ==
    IF arr = <<>> THEN <<>>
    ELSE IF Len(arr) = 1 THEN arr[1]
    ELSE arr[1] \o sep \o join(Tail(arr), sep)

(***************************************************************************)
(* Workspace normalization: removeRedundantPaths (POSIX: path.sep is "/").  *)
(***************************************************************************)
pathSep == <<"/">>

\* removeRedundantPaths, lines 259-267: the loop that keeps the uncontained paths
RECURSIVE keepUncontained(_, _)
keepUncontained(kept, pathsSortedByLength) ==
    IF pathsSortedByLength = <<>> THEN kept
    ELSE LET currentPath == Head(pathsSortedByLength)
             isAlreadyContained ==
                 \E i \in 1..Len(kept) :
                     startsWith(currentPath, kept[i] \o pathSep) \/ kept[i] = currentPath
         IN  keepUncontained(IF isAlreadyContained THEN kept ELSE Append(kept, currentPath),
                             Tail(pathsSortedByLength))

removeRedundantPaths(paths) ==
    LET pathsSortedByLength == sort(paths, LAMBDA a, b : Len(a) < Len(b))
    IN  sort(keepUncontained(<<>>, pathsSortedByLength), stringLess)

(***************************************************************************)
(* The file system run sees, and utils.toAbsolutePath.  Paths are POSIX.    *)
(***************************************************************************)
\* process.cwd()
Cwd == <<"/","a">>

Folders == {<<"/">>, <<"/","a">>, <<"/","a","b">>}
Files == {<<"/","a","/","f">>, <<"/","a","b","/","g">>}

\* path.resolve, its walk over the names of a path: "" and "." are dropped and
\* ".." drops the name before it
RECURSIVE resolveSegments(_, _)
resolveSegments(resolved, names) ==
    IF names = <<>> THEN resolved
    ELSE IF Head(names) \in {<<>>, <<".">>} THEN resolveSegments(resolved, Tail(names))
    ELSE IF Head(names) = <<".", ".">>
    THEN resolveSegments(IF resolved = <<>> THEN resolved
                         ELSE SubSeq(resolved, 1, Len(resolved) - 1), Tail(names))
    ELSE resolveSegments(Append(resolved, Head(names)), Tail(names))

\* path.resolve(p) with one argument
pathResolve(p) ==
    LET absolute == IF startsWith(p, pathSep) THEN p ELSE Cwd \o pathSep \o p
    IN  pathSep \o join(resolveSegments(<<>>, split(absolute, "/")), pathSep)

\* utils.toAbsolutePath
toAbsolutePath(fileOrFolder) ==
    pathResolve([i \in 1..Len(fileOrFolder) |->
                    IF fileOrFolder[i] \in {"\\", "/"} THEN pathSep[1] ELSE fileOrFolder[i]])

\* fs.existsSync, fs.statSync(p).isDirectory(), fs.statSync(p).isFile()
existsSync(p) == pathResolve(p) \in Folders \cup Files
isDirectory(p) == pathResolve(p) \in Folders
isFile(p) == pathResolve(p) \in Files

(***************************************************************************)
(* extractEngineRunOptions and what it calls.  A function that may throw    *)
(* yields [error, value]: error is Defined(message) when it threw.          *)
(***************************************************************************)
Returns(value) == [error |-> Undefined, value |-> value]
Throws(message) == [error |-> Defined(message), value |-> <<>>]

validateFileOrFolder(fileOrFolder) ==
    LET absFileOrFolder == toAbsolutePath(fileOrFolder)
    IN  IF ~existsSync(fileOrFolder)
        THEN Throws(getMessage("FileOrFolderDoesNotExist", <<absFileOrFolder>>))
        ELSE Returns(absFileOrFolder)

validatePathStartPointFile(file, pathStartPointStr) ==
    LET absFile == toAbsolutePath(file)
    IN  IF ~existsSync(absFile)
        THEN Throws(getMessage("PathStartPointFileDoesNotExist", <<pathStartPointStr, absFile>>))
        ELSE IF isDirectory(absFile)
        THEN Throws(getMessage("PathStartPointWithMethodMustNotBeFolder", <<pathStartPointStr, absFile>>))
        ELSE Returns(absFile)

\* /^[A-Za-z][A-Za-z0-9_]*$/.test(methodName)
Letters == Range(UpperCaseLetters) \cup Range(LowerCaseLetters)
Digits == {"0","1","2","3","4","5","6","7","8","9"}
isValidMethodName(methodName) ==
    /\ Len(methodName) >= 1
    /\ methodName[1] \in Letters
    /\ \A i \in 2..Len(methodName) : methodName[i] \in Letters \cup Digits \cup {"_"}

\* str.replace(/\s+;*$/, ''): the leftmost place from which the rest of the string
\* is one or more white spaces and then nothing but semicolons is where it is cut
removeTrailingSpacesAndSemicolons(str) ==
    LET matchesFrom(i) ==
            \E k \in i..Len(str) :
                /\ \A j \in i..k : str[j] = " "
                /\ \A j \in (k+1)..Len(str) : str[j] = ";"
        starts == {i \in 1..Len(str) : matchesFrom(i)}
    IN  IF starts = {} THEN str
        ELSE SubSeq(str, 1, (CHOOSE i \in starts : \A j \in starts : i <= j) - 1)

extractEnginePathStartPoints(pathStartPointStr) ==
    LET parts == split(pathStartPointStr, "#")
    IN  IF Len(parts) = 1
        THEN LET file == validateFileOrFolder(pathStartPointStr)
             IN  IF isDefined(file.error) THEN file
                 ELSE Returns(<<[file |-> file.value, methodName |-> Undefined]>>)
        ELSE IF Len(parts) > 2
        THEN Throws(getMessage("InvalidPathStartPoint", <<pathStartPointStr>>))
        ELSE LET pathStartPointFile == validatePathStartPointFile(parts[1], pathStartPointStr)
                 methodNames == split(removeTrailingSpacesAndSemicolons(parts[2]), ";")
             IN  IF isDefined(pathStartPointFile.error) THEN pathStartPointFile
                 ELSE IF \E i \in 1..Len(methodNames) : ~isValidMethodName(methodNames[i])
                 THEN Throws(getMessage("InvalidPathStartPoint", <<pathStartPointStr>>))
                 ELSE Returns([i \in 1..Len(methodNames) |->
                        [file |-> pathStartPointFile.value, methodName |-> Defined(methodNames[i])]])

\* fileIsUnderneath
fileIsUnderneath(file, filesOrFolders) ==
    \E i \in 1..Len(filesOrFolders) :
        \/ filesOrFolders[i] = file
        \/ (isDirectory(filesOrFolders[i]) /\ startsWith(file, filesOrFolders[i]))

\* validatePathStartPointsAreInsideWorkspace: Undefined, or the error it throws
validatePathStartPointsAreInsideWorkspace(options) ==
    IF ~isDefined(options.pathStartPoints) THEN Undefined
    ELSE LET points  == valueOf(options.pathStartPoints)
             outside == {i \in 1..Len(points) : ~fileIsUnderneath(points[i].file, options.workspaceFiles)}
         IN  IF outside = {} THEN Undefined
             ELSE Defined(getMessage("PathStartPointMustBeInsideWorkspace",
                     <<points[CHOOSE i \in outside : \A j \in outside : i <= j].file,
                       options.workspaceFiles>>))

\* array.map(f) and array.flatMap(f) for an f that may throw: the first element on
\* which f throws ends the call
RECURSIVE mapValidateFileOrFolder(_)
mapValidateFileOrFolder(filesOrFolders) ==
    IF filesOrFolders = <<>> THEN Returns(<<>>)
    ELSE LET first == validateFileOrFolder(Head(filesOrFolders))
             rest  == mapValidateFileOrFolder(Tail(filesOrFolders))
         IN  IF isDefined(first.error) THEN first
             ELSE IF isDefined(rest.error) THEN rest
             ELSE Returns(<<first.value>> \o rest.value)

RECURSIVE flatMapExtractEnginePathStartPoints(_)
flatMapExtractEnginePathStartPoints(pathStartPointStrs) ==
    IF pathStartPointStrs = <<>> THEN Returns(<<>>)
    ELSE LET first == extractEnginePathStartPoints(Head(pathStartPointStrs))
             rest  == flatMapExtractEnginePathStartPoints(Tail(pathStartPointStrs))
         IN  IF isDefined(first.error) THEN first
             ELSE IF isDefined(rest.error) THEN rest
             ELSE Returns(first.value \o rest.value)

RunOptions(workspaceFiles, pathStartPoints) ==
    [workspaceFiles |-> workspaceFiles, pathStartPoints |-> pathStartPoints]

extractEngineRunOptions(options) ==
    IF Len(options.workspaceFiles) = 0
    THEN Throws(getMessage("AtLeastOneFileOrFolderMustBeIncluded", <<>>))
    ELSE LET validated == mapValidateFileOrFolder(options.workspaceFiles)
         IN  IF isDefined(validated.error) THEN validated
             ELSE LET workspaceFiles == removeRedundantPaths(validated.value)
                      extracted ==
                          IF isDefined(options.pathStartPoints)
                             /\ Len(valueOf(options.pathStartPoints)) > 0
                          THEN flatMapExtractEnginePathStartPoints(valueOf(options.pathStartPoints))
                          ELSE Returns(<<>>)
                  IN  IF isDefined(extracted.error) THEN extracted
                      ELSE LET result ==
                                  RunOptions(workspaceFiles,
                                      IF isDefined(options.pathStartPoints)
                                         /\ Len(valueOf(options.pathStartPoints)) > 0
                                      THEN Defined(extracted.value) ELSE Undefined)
                               outside == validatePathStartPointsAreInsideWorkspace(result)
                           IN  IF isDefined(outside) THEN Throws(valueOf(outside))
                               ELSE Returns(result)

(***************************************************************************)
(* Numbers.  A JavaScript number is kept as a count of halves, so that a    *)
(* number that is not an integer (1.5 is 3 halves) can be told from one     *)
(* that is.                                                                 *)
(***************************************************************************)
Halves == 2
Number(n) == n * Halves
isInteger(value) == value % Halves = 0

\* Number.MAX_VALUE: above every number of the model
MAX_VALUE == 2147483647

isIntegerBetween(value, leftBound, rightBound) ==
    value >= leftBound /\ value <= rightBound /\ isInteger(value)

\* A mutant of isValidLineOrColumn: line and column 0 are let through.
isValidLineOrColumnFromZero(value) == isIntegerBetween(value, Number(0), MAX_VALUE)

isValidLineOrColumn(value) == isIntegerBetween(value, Number(1), MAX_VALUE)

(***************************************************************************)
(* What an engine returns (engine-api results.ts) and its validation.       *)
(***************************************************************************)
CodeLocation(file, startLine, startColumn, endLine, endColumn) ==
    [file |-> file, startLine |-> startLine, startColumn |-> startColumn,
     endLine |-> endLine, endColumn |-> endColumn]

Violation(ruleName, message, codeLocations, primaryLocationIndex) ==
    [ruleName |-> ruleName, message |-> message, codeLocations |-> codeLocations,
     primaryLocationIndex |-> primaryLocationIndex, resourceUrls |-> Undefined]

\* The same violation with resourceUrls supplied
withResourceUrls(violation, resourceUrls) ==
    [violation EXCEPT !.resourceUrls = Defined(resourceUrls)]

\* The first thrown error of a sequence of checks made in order
firstDefined(checks) ==
    LET failed == {i \in 1..Len(checks) : isDefined(checks[i])}
    IN  IF failed = {} THEN Undefined
        ELSE checks[CHOOSE i \in failed : \A j \in failed : i <= j]

validateViolationRuleName(violation, engineName, ruleMap) ==
    IF hasRule(ruleMap, engineName, violation.ruleName) THEN Undefined
    ELSE Defined(getMessage("EngineReturnedViolationForUnselectedRule",
                            <<engineName, violation.ruleName>>))

\* A mutant of validateViolationPrimaryLocationIndex: an index equal to the number of
\* code locations is let through.
validateViolationPrimaryLocationIndexOffByOne(violation, engineName) ==
    IF ~isIntegerBetween(violation.primaryLocationIndex, Number(0),
                         Number(Len(violation.codeLocations)))
    THEN Defined(getMessage("EngineReturnedViolationWithInvalidPrimaryLocationIndex",
            <<engineName, violation.ruleName, violation.primaryLocationIndex,
              Number(Len(violation.codeLocations))>>))
    ELSE Undefined

validateViolationPrimaryLocationIndex(violation, engineName) ==
    IF ~isIntegerBetween(violation.primaryLocationIndex, Number(0),
                         Number(Len(violation.codeLocations) - 1))
    THEN Defined(getMessage("EngineReturnedViolationWithInvalidPrimaryLocationIndex",
            <<engineName, violation.ruleName, violation.primaryLocationIndex,
              Number(Len(violation.codeLocations))>>))
    ELSE Undefined

\* validateViolationCodeLocations, the body of its loop
validateCodeLocation(codeLocation, violation, engineName) ==
    LET absFile == toAbsolutePath(codeLocation.file)
        invalid(field, value) ==
            Defined(getMessage("EngineReturnedViolationWithCodeLocationWithInvalidLineOrColumn",
                               <<engineName, violation.ruleName, field, value>>))
    IN  IF ~existsSync(absFile)
        THEN Defined(getMessage("EngineReturnedViolationWithCodeLocationFileThatDoesNotExist",
                                <<engineName, violation.ruleName, absFile>>))
        ELSE IF ~isFile(absFile)
        THEN Defined(getMessage("EngineReturnedViolationWithCodeLocationFileAsFolder",
                                <<engineName, violation.ruleName, absFile>>))
        ELSE IF ~isValidLineOrColumn(codeLocation.startLine)
        THEN invalid("startLine", codeLocation.startLine)
        ELSE IF ~isValidLineOrColumn(codeLocation.startColumn)
        THEN invalid("startColumn", codeLocation.startColumn)
        ELSE IF ~isDefined(codeLocation.endLine) THEN Undefined
        ELSE IF ~isValidLineOrColumn(valueOf(codeLocation.endLine))
        THEN invalid("endLine", valueOf(codeLocation.endLine))
        ELSE IF valueOf(codeLocation.endLine) < codeLocation.startLine
        THEN Defined(getMessage("EngineReturnedViolationWithCodeLocationWithEndLineBeforeStartLine",
                <<engineName, violation.ruleName, valueOf(codeLocation.endLine), codeLocation.startLine>>))
        ELSE IF ~isDefined(codeLocation.endColumn) THEN Undefined
        ELSE IF ~isValidLineOrColumn(valueOf(codeLocation.endColumn))
        THEN invalid("endColumn", valueOf(codeLocation.endColumn))
        ELSE IF /\ valueOf(codeLocation.endLine) = codeLocation.startLine
                /\ valueOf(codeLocation.endColumn) < codeLocation.startColumn
        THEN Defined(getMessage(
                "EngineReturnedViolationWithCodeLocationWithEndColumnBeforeStartColumnOnSameLine",
                <<engineName, violation.ruleName, valueOf(codeLocation.endColumn),
                  codeLocation.startColumn>>))
        ELSE Undefined

validateViolationCodeLocations(violation, engineName) ==
    firstDefined([i \in 1..Len(violation.codeLocations) |->
                    validateCodeLocation(violation.codeLocations[i], violation, engineName)])

\* A mutant of validateEngineRunResults: whatever the engine returns is accepted.
validateEngineRunResultsAcceptsAll(engineName, apiEngineRunResults, ruleMap) == Undefined

\* validateEngineRunResults: Undefined, or the error it throws
validateEngineRunResults(engineName, apiEngineRunResults, ruleMap) ==
    firstDefined([i \in 1..Len(apiEngineRunResults.violations) |->
        firstDefined(<<
            validateViolationRuleName(apiEngineRunResults.violations[i], engineName, ruleMap),
            validateViolationPrimaryLocationIndex(apiEngineRunResults.violations[i], engineName),
            validateViolationCodeLocations(apiEngineRunResults.violations[i], engineName)>>)])

(***************************************************************************)
(* Results (core results.ts).                                               *)
(***************************************************************************)
\* new CodeLocationImpl(apiCodeLocation), as its getters report it
CodeLocationImpl(apiCodeLocation) ==
    [file |-> Defined(toAbsolutePath(apiCodeLocation.file)),
     startLine |-> Defined(apiCodeLocation.startLine),
     startColumn |-> Defined(apiCodeLocation.startColumn),
     endLine |-> apiCodeLocation.endLine,
     endColumn |-> IF ~isDefined(apiCodeLocation.endLine) THEN Undefined
                   ELSE apiCodeLocation.endColumn]

UndefinedCodeLocation ==
    [file |-> Undefined, startLine |-> Undefined, startColumn |-> Undefined,
     endLine |-> Undefined, endColumn |-> Undefined]

UnexpectedEngineError == <<"U","n","e","x","p","e","c","t","e","d","E","n","g","i","n","e","E","r","r","o","r">>

\* new UnexpectedEngineErrorRule(engineName), as its getters report it
UnexpectedEngineErrorRule(engineName) ==
    RuleImpl(engineName, RuleDescription(UnexpectedEngineError, Critical, "UnexpectedError", <<>>, <<>>))

\* Array.prototype.includes on strings: strict equality
includes(array, element) == \E k \in 1..Len(array) : array[k] = element

\* A mutant of getResourceUrls: every url of the violation is appended.
getResourceUrlsAppendingAll(apiViolation, rule) ==
    rule.ruleDesc.resourceUrls
        \o (IF isDefined(apiViolation.resourceUrls) THEN valueOf(apiViolation.resourceUrls) ELSE <<>>)

\* ViolationImpl.getResourceUrls: the rule's urls, then those of the violation that
\* the rule's urls do not include
getResourceUrls(apiViolation, rule) ==
    LET urls == rule.ruleDesc.resourceUrls
    IN  IF ~isDefined(apiViolation.resourceUrls) THEN urls
        ELSE urls \o SelectSeq(valueOf(apiViolation.resourceUrls),
                               LAMBDA url : ~includes(urls, url))

\* new ViolationImpl(apiViolation, rule), as its getters report it
ViolationImpl(apiViolation, rule) ==
    [rule |-> rule,
     message |-> apiViolation.message,
     codeLocations |-> [i \in 1..Len(apiViolation.codeLocations) |->
                           CodeLocationImpl(apiViolation.codeLocations[i])],
     primaryLocationIndex |-> apiViolation.primaryLocationIndex,
     resourceUrls |-> getResourceUrls(apiViolation, rule)]

\* new UnexpectedEngineErrorViolation(engineName, error), as its getters report it
UnexpectedEngineErrorViolation(engineName, error) ==
    [rule |-> UnexpectedEngineErrorRule(engineName),
     message |-> getMessage("UnexpectedEngineErrorViolationMessage", <<engineName, error>>),
     codeLocations |-> <<UndefinedCodeLocation>>,
     primaryLocationIndex |-> Number(0),
     resourceUrls |-> <<>>]

\* The two kinds of EngineRunResults: the field the kind does not have is Undefined
EngineRunResultsImpl(engineName, apiEngineRunResults) ==
    [engineName |-> engineName, apiEngineRunResults |-> Defined(apiEngineRunResults),
     error |-> Undefined]

UnexpectedErrorEngineRunResults(engineName, error) ==
    [engineName |-> engineName, apiEngineRunResults |-> Undefined, error |-> Defined(error)]

\* EngineRunResults.getViolations, for either kind
getViolations(engineRunResults, ruleMap) ==
    IF isDefined(engineRunResults.error)
    THEN <<UnexpectedEngineErrorViolation(engineRunResults.engineName, valueOf(engineRunResults.error))>>
    ELSE LET violations == valueOf(engineRunResults.apiEngineRunResults).violations
         IN  [i \in 1..Len(violations) |->
                ViolationImpl(violations[i],
                              getRule(ruleMap, engineRunResults.engineName, violations[i].ruleName))]

\* EngineRunResults.getViolationCount, for either kind
getViolationCount(engineRunResults) ==
    IF isDefined(engineRunResults.error) THEN 1
    ELSE Len(valueOf(engineRunResults.apiEngineRunResults).violations)

\* A mutant of addEngineRunResults: the newest results are put in front.
addEngineRunResultsInFront(engineRunResultsMap, engineRunResults) ==
    <<engineRunResults>> \o engineRunResultsMap

\* RunResultsImpl: engineRunResultsMap is a Map in insertion order; set() on a key it
\* holds replaces the value where it stands
\* A variant that keeps only the first engine's results
addEngineRunResultsOnce(engineRunResultsMap, engineRunResults) ==
    IF engineRunResultsMap = <<>> THEN <<engineRunResults>> ELSE engineRunResultsMap

addEngineRunResults(engineRunResultsMap, engineRunResults) ==
    IF \E k \in 1..Len(engineRunResultsMap) :
            engineRunResultsMap[k].engineName = engineRunResults.engineName
    THEN [k \in 1..Len(engineRunResultsMap) |->
            IF engineRunResultsMap[k].engineName = engineRunResults.engineName
            THEN engineRunResults ELSE engineRunResultsMap[k]]
    ELSE Append(engineRunResultsMap, engineRunResults)

\* RunResultsImpl.getEngineRunResults
getEngineRunResults(engineRunResultsMap, engineName) ==
    IF \E k \in 1..Len(engineRunResultsMap) : engineRunResultsMap[k].engineName = engineName
    THEN Returns(engineRunResultsMap[CHOOSE k \in 1..Len(engineRunResultsMap) :
                                        engineRunResultsMap[k].engineName = engineName])
    ELSE Throws(getMessage("EngineRunResultsMissing", <<engineName>>))

\* RunResultsImpl.getEngineNames
getResultsEngineNames(engineRunResultsMap) ==
    [k \in 1..Len(engineRunResultsMap) |-> engineRunResultsMap[k].engineName]

\* RunResultsImpl.getViolations: the flatMap over the values of the map
RECURSIVE getAllViolations(_, _)
getAllViolations(engineRunResultsMap, ruleMap) ==
    IF engineRunResultsMap = <<>> THEN <<>>
    ELSE getViolations(Head(engineRunResultsMap), ruleMap)
            \o getAllViolations(Tail(engineRunResultsMap), ruleMap)

\* RunResultsImpl.getViolationCount: the loop that adds up the counts
RECURSIVE getTotalViolationCount(_)
getTotalViolationCount(engineRunResultsMap) ==
    IF engineRunResultsMap = <<>> THEN 0
    ELSE getViolationCount(Head(engineRunResultsMap))
            + getTotalViolationCount(Tail(engineRunResultsMap))

\* A variant that counts the violations of the severity and of the more severe ones
getViolationCountOfSeverityOrAbove(engineRunResults, ruleMap, severity) ==
    Len(SelectSeq(getViolations(engineRunResults, ruleMap),
                  LAMBDA v : getSeverityLevel(v.rule) <= severity))

\* EngineRunResultsImpl.getViolationCountOfSeverity filters the violations by the
\* severity of their rule; UnexpectedErrorEngineRunResults answers 1 for Critical
getViolationCountOfSeverity(engineRunResults, ruleMap, severity) ==
    IF isDefined(engineRunResults.error)
    THEN IF severity = Critical THEN 1 ELSE 0
    ELSE Len(SelectSeq(getViolations(engineRunResults, ruleMap),
                       LAMBDA v : getSeverityLevel(v.rule) = severity))

RECURSIVE getTotalViolationCountOfSeverity(_, _, _)
getTotalViolationCountOfSeverity(engineRunResultsMap, ruleMap, severity) ==
    IF engineRunResultsMap = <<>> THEN 0
    ELSE getViolationCountOfSeverity(Head(engineRunResultsMap), ruleMap, severity)
            + getTotalViolationCountOfSeverity(Tail(engineRunResultsMap), ruleMap, severity)

(***************************************************************************)
(* CodeAnalyzer.run, cut at its await: what it does before an engine's      *)
(* runRules is called and what it does once the call has settled.           *)
(***************************************************************************)
EngineProgressEvent(engineName, percentComplete) ==
    [type |-> "EngineProgressEvent", engineName |-> engineName, percentComplete |-> percentComplete]

EngineResultsEvent(results) == [type |-> "EngineResultsEvent", results |-> results]

EngineLogEvent(engineName, logLevel, message) ==
    [type |-> "EngineLogEvent", engineName |-> engineName, logLevel |-> logLevel, message |-> message]

\* A mutant of rulesToRun: the engine is handed its rule names in reverse order.
rulesToRunReversed(ruleMap, engineName) ==
    LET rules == getRulesFor(ruleMap, engineName)
    IN  [i \in 1..Len(rules) |-> getName(rules[Len(rules) + 1 - i])]

\* The rule names run hands to an engine (runEngineAndValidateResults, line 124)
rulesToRun(ruleMap, engineName) ==
    [i \in 1..Len(getRulesFor(ruleMap, engineName)) |-> getName(getRulesFor(ruleMap, engineName)[i])]

\* run, lines 101-103, and runEngineAndValidateResults, line 125: the events emitted
\* for an engine before its runRules is called
eventsBeforeRunRules(ruleMap, engineName) ==
    <<EngineProgressEvent(engineName, 0),
      LogEvent(LogLevelDebug, getMessage("RunningEngineWithRules",
                                         <<engineName, rulesToRun(ruleMap, engineName)>>))>>

\* A mutant of eventsAfterRunRules: the results are announced before the 100%.
eventsAfterRunRulesResultsFirst(engineName, engineRunResults) ==
    <<EngineResultsEvent(engineRunResults), EngineProgressEvent(engineName, 100)>>

\* run, lines 108-113: the events emitted for an engine once its results are added
eventsAfterRunRules(engineName, engineRunResults) ==
    <<EngineProgressEvent(engineName, 100), EngineResultsEvent(engineRunResults)>>

\* A mutant of runEngineAndValidateResults: no catch, the engine's error is rethrown.
runEngineAndValidateResultsNoCatch(engineName, settled, ruleMap) ==
    IF isDefined(settled.error) THEN Throws(valueOf(settled.error))
    ELSE LET invalid == validateEngineRunResults(engineName, settled.value, ruleMap)
         IN  IF isDefined(invalid) THEN Throws(valueOf(invalid))
             ELSE Returns(EngineRunResultsImpl(engineName, settled.value))

\* runEngineAndValidateResults, lines 128-136, given how the call of line 130 settled:
\* settled.error is what it threw, settled.value what it returned
runEngineAndValidateResults(engineName, settled, ruleMap) ==
    IF isDefined(settled.error)
    THEN Returns(UnexpectedErrorEngineRunResults(engineName, valueOf(settled.error)))
    ELSE LET invalid == validateEngineRunResults(engineName, settled.value, ruleMap)
         IN  IF isDefined(invalid) THEN Throws(valueOf(invalid))
             ELSE Returns(EngineRunResultsImpl(engineName, settled.value))

\* The two entries of history that are not events: line 130 calling runRules on what
\* getEngine returned (registered tells whether that was an engine), and the call
\* settling
runRulesCalled(engineName, registered, ruleNames, options) ==
    [type |-> "runRulesCalled", engineName |-> engineName, registered |-> registered,
     ruleNames |-> ruleNames, runOptions |-> options]

runRulesSettled(engineName, settled) ==
    [type |-> "runRulesSettled", engineName |-> engineName, settled |-> settled]

(***************************************************************************)
(* What engines do when run: the results and errors tried.                  *)
(***************************************************************************)
Location1 == CodeLocation(<<"/","a","/","f">>, Number(1), Number(1), Undefined, Undefined)
Location2 == CodeLocation(<<"f">>, Number(2), Number(1), Defined(Number(2)), Defined(Number(1)))

\* Violations of one rule: one that is valid, and one for each way of being invalid
SampleViolations(ruleName) ==
    { Violation(ruleName, "m", <<Location1>>, Number(0)),
      Violation(ruleName, "m", <<Location1>>, Number(1)),
      Violation(ruleName, "m", <<Location1>>, Number(-1)),
      Violation(ruleName, "m", <<Location1, Location2>>, Number(0) + 1),
      Violation(ruleName, "m", <<>>, Number(0)),
      Violation(ruleName, "m", <<CodeLocation(<<"/","x">>, Number(1), Number(1), Undefined, Undefined)>>, Number(0)),
      Violation(ruleName, "m", <<CodeLocation(<<"/","a">>, Number(1), Number(1), Undefined, Undefined)>>, Number(0)),
      Violation(ruleName, "m", <<CodeLocation(<<"/","a","/","f">>, Number(0), Number(1), Undefined, Undefined)>>, Number(0)),
      Violation(ruleName, "m", <<CodeLocation(<<"/","a","/","f">>, Number(1), Number(1) + 1, Undefined, Undefined)>>, Number(0)),
      Violation(ruleName, "m", <<CodeLocation(<<"/","a","/","f">>, Number(2), Number(1), Defined(Number(1)), Undefined)>>, Number(0)),
      Violation(ruleName, "m", <<CodeLocation(<<"/","a","/","f">>, Number(2), Number(2), Defined(Number(2)), Defined(Number(1)))>>, Number(0)),
      Violation(ruleName, "m", <<CodeLocation(<<"/","a","/","f">>, Number(1), Number(1), Undefined, Defined(Number(0)))>>, Number(0)) }

\* What a registered engine's runRules may do: throw, or return no violation, one
\* violation of the last rule it describes, a valid violation and then one with
\* its index out of range, or a violation of the first rule it describes and then
\* one of the last
EngineOutcomes(engine) ==
    LET described == engine.describeRules
        ruleNames == IF described = <<>> THEN {} ELSE {described[Len(described)].name}
    IN  {Throws("SomeErrorMessageHere"), Returns([violations |-> <<>>])}
        \cup {Returns([violations |-> <<v>>]) : v \in UNION {SampleViolations(r) : r \in ruleNames}}
        \cup {Returns([violations |-> <<Violation(r, "m", <<Location1>>, Number(0)),
                                       Violation(r, "m", <<Location1>>, Number(1))>>]) : r \in ruleNames}
        \cup {Returns([violations |-> <<Violation(described[1].name, "n", <<Location1, Location2>>, Number(1)),
                                       Violation(r, "m", <<Location1>>, Number(0))>>]) : r \in ruleNames}

\* Calling runRules on undefined throws a TypeError at once
TypeErrorOutcome == Throws("Cannot read properties of undefined (reading 'runRules')")

\* What an engine emits while its runRules is under way
EngineEvents == {[type |-> "LogEvent", logLevel |-> LogLevelInfo, message |-> "m"],
                 [type |-> "ProgressEvent", percentComplete |-> 50]}

(***************************************************************************)
(* The state machine: construction, addEnginePlugin and selectRules.        *)
(***************************************************************************)
NoCall == [op |-> "none", plugin |-> Undefined, error |-> Undefined]

\* The clock of a new CodeAnalyzer, no callback registered, no engine created
NoEvents ==
    /\ clock = 0
    /\ listeners = <<>>
    /\ instances = <<>>
    /\ engineEmitted = <<>>
    /\ published = <<>>
    /\ received = <<>>

\* The execute() calls that are made on the executor
Calls == {1, 2}

\* A call that is not made yet: its argument, the copies it started, the directory
\* it had scanned, the files retire found there and the files of the findings
NoExecution == [pc |-> "none", files |-> <<>>, copies |-> <<>>, scanned |-> Undefined,
                found |-> {}, findings |-> {}]

\* new AdvancedRetireJsExecutor(): no call of execute() yet, no temporary directory

NoExecutions ==
    /\ executor = [parentTempDir |-> Undefined, tempToOrigFileMap |-> <<>>,
                   origToTempDirMap |-> <<>>, uniqNameCounter |-> 0]
    /\ tempFolder = [made |-> 0, files |-> {}]
    /\ executions = [p \in Calls |-> NoExecution]

\* new CodeAnalyzer(config)
Init ==
    /\ config \in Configs
    /\ engines = <<>>
    /\ allRules = <<>>
    /\ emitted = <<>>
    /\ call = NoCall
    /\ adds = 0
    /\ selectors = Undefined
    /\ selection = Undefined
    /\ pc = "idle"
    /\ runOptions = Undefined
    /\ engineRunOptions = Undefined
    /\ engineIndex = 1
    /\ engineEvents = 0
    /\ runResults = <<>>
    /\ history = <<>>
    /\ absolutePaths = <<>>
    /\ filteredPaths = Undefined
    /\ startPointStr = <<>>
    /\ startPointRecords = Undefined
    /\ returnedLocation = Location1
    /\ locationOutcome = Undefined
    /\ reportedViolation = Undefined
    /\ reportedUrls = Undefined
    /\ NoEvents
    /\ NoExecutions

\* A selection as it reads when the catalog is rules: its RuleImpl objects are those
\* of the catalog, so a description object written to since reads as it does there
readThrough(ruleMap, rules) ==
    [i \in 1..Len(ruleMap) |->
        [ruleMap[i] EXCEPT !.rules =
            [j \in 1..Len(@) |-> [@[j] EXCEPT !.ruleDesc = currentDescription(rules, @)]]]]

\* await codeAnalyzer.addEnginePlugin(plugin), made while no run is under way
\* What an addEnginePlugin call does to the registry and to a selection taken before
AddEnginePluginCall(plugin) ==
    /\ adds < MaxAdds
    /\ pc = "idle"
    /\ LET st == addEnginePlugin([engines |-> engines, allRules |-> allRules,
                                  emitted |-> <<>>, error |-> Undefined], config, plugin)
       IN  /\ engines' = st.engines
           /\ allRules' = st.allRules
           /\ emitted' = st.emitted
           /\ call' = [op |-> "addEnginePlugin", plugin |-> Defined(plugin), error |-> st.error]
           /\ selection' = IF isDefined(selection)
                            THEN Defined(readThrough(valueOf(selection), st.allRules))
                            ELSE Undefined
    /\ adds' = adds + 1
    /\ UNCHANGED <<config, selectors, runVars>>

\* addEnginePlugin where no callback is registered
AddEnginePlugin(plugin) ==
    /\ AddEnginePluginCall(plugin)
    /\ UNCHANGED pathVars

\* selection = codeAnalyzer.selectRules(...sels).  selectRules reads allRules and
\* changes nothing of the analyzer, so one call per behaviour, made at any point
\* between the other calls, reaches every (catalog, selection) pair that any number
\* of calls reaches.
SelectRules(sels) ==
    /\ ~isDefined(selection)
    /\ pc = "idle"
    /\ selectors' = Defined(sels)
    /\ selection' = Defined(selectRules(allRules, sels))
    /\ UNCHANGED <<regVars, runVars, pathVars>>

\* The selector strings tried: tokens in either case, intersections that match and
\* that do not, a token no rule has and the empty string.
RuleSelectors ==
    { <<"a","l","l">>, <<"S","T","U","B","E","N","G","I","N","E","1">>, <<"S","e","c","u","r","i","t","y",":","3">>, <<"s","t","u","b","E","n","g","i","n","e","1",":","D","o","e","s","N","o","t","E","x","i","s","t">>,
      <<"H","I","G","H">>, <<"s","t","u","b","1","r","u","l","e","b">>, <<>> }

RECURSIVE SeqsUpTo(_, _)
SeqsUpTo(S, n) ==
    IF n = 0 THEN {<<>>}
    ELSE SeqsUpTo(S, n - 1) \cup {Append(q, x) : q \in {r \in SeqsUpTo(S, n - 1) : Len(r) = n - 1}, x \in S}

SelectorLists == SeqsUpTo(RuleSelectors, MaxSelectors)

\* The plugins that create an engine; those that throw before they do leave the
\* catalog as it is and are added under SpecAdd
SelectPlugins == Plugins \ {ThrowingPlugin1, ThrowingPlugin2}

NextSelect ==
    \/ \E plugin \in SelectPlugins : AddEnginePlugin(plugin)
    \/ \E sels \in SelectorLists : SelectRules(sels)

SpecSelect == Init /\ [][NextSelect]_vars

\* The registry and selectRules again, called with no selector, with each selector on
\* its own, and with two selectors that differ in case from what they name
CaseSelectorLists ==
    {<<>>} \cup {<<sel>> : sel \in RuleSelectors}
           \cup {<< <<"H","I","G","H">>, <<"s","t","u","b","1","r","u","l","e","b">> >>}

NextCase ==
    \/ \E plugin \in Plugins : AddEnginePlugin(plugin)
    \/ \E sels \in CaseSelectorLists : SelectRules(sels)

SpecCase == Init /\ [][NextCase]_vars

(***************************************************************************)
(* The registry on its own: addEnginePlugin calls alone, for the plugins    *)
(* above and for the same plugins declaring an API version from the future. *)
(***************************************************************************)
\* A plugin whose getApiVersion() returns a version greater than the host's
asFuturePlugin(plugin) == [plugin EXCEPT !.getApiVersion = ENGINE_API_VERSION + 1]

AddPlugins == Plugins \cup {asFuturePlugin(plugin) : plugin \in Plugins}

NextAdd == \E plugin \in AddPlugins : AddEnginePlugin(plugin)

SpecAdd == Init /\ [][NextAdd]_vars

(***************************************************************************)
(* Rule overrides: the registry and selectRules under configurations that   *)
(* override a severity, tags, both, and tags with the empty list.           *)
(***************************************************************************)
\* Overrides of both fields of one rule, the tags with an empty list, and of the
\* severity of another rule
EmptyTagsConfig ==
    [rules |-> { [engineName |-> stubEngine1, ruleName |-> stub1RuleA,
                  override |-> RuleOverride(Defined(Info), Defined(<<>>))],
                 [engineName |-> stubEngine2, ruleName |-> stub2RuleA,
                  override |-> RuleOverride(Defined(High), Undefined)] }]

OverrideConfigs == {DEFAULT_CONFIG, SampleConfig01, EmptyTagsConfig}

OverridePlugins == {StubEnginePlugin, InvalidEnginePlugin}

OverrideSelectorLists ==
    { <<>>, << <<"5">> >>, << SomeNewTag >>, << <<"c","r","i","t","i","c","a","l">> >>,
      << CodeStyle, <<"h","i","g","h">> >> }

InitOverrides ==
    /\ config \in OverrideConfigs
    /\ engines = <<>>
    /\ allRules = <<>>
    /\ emitted = <<>>
    /\ call = NoCall
    /\ adds = 0
    /\ selectors = Undefined
    /\ selection = Undefined
    /\ pc = "idle"
    /\ runOptions = Undefined
    /\ engineRunOptions = Undefined
    /\ engineIndex = 1
    /\ engineEvents = 0
    /\ runResults = <<>>
    /\ history = <<>>
    /\ absolutePaths = <<>>
    /\ filteredPaths = Undefined
    /\ startPointStr = <<>>
    /\ startPointRecords = Undefined
    /\ returnedLocation = Location1
    /\ locationOutcome = Undefined
    /\ reportedViolation = Undefined
    /\ reportedUrls = Undefined
    /\ NoEvents
    /\ NoExecutions

NextOverrides ==
    \/ \E plugin \in OverridePlugins : AddEnginePlugin(plugin)
    \/ \E sels \in OverrideSelectorLists : SelectRules(sels)

SpecOverrides == InitOverrides /\ [][NextOverrides]_vars

(***************************************************************************)
(* Engines that keep their rule descriptions: two engines of different      *)
(* names whose describeRules() return the same RuleDescription object on    *)
(* every call, under the configurations above.                              *)
(***************************************************************************)
KeptRuleDescriptions ==
    << keptObject("keptRuleA",
           RuleDescription(stub1RuleA, Low, "Standard", <<Recommended, CodeStyle>>, <<>>)) >>

KeepingEngine1 == Engine(stubEngine1, FALSE, FALSE, KeptRuleDescriptions)
KeepingEngine2 == Engine(stubEngine2, FALSE, FALSE, KeptRuleDescriptions)

KeepingEnginePlugin1 ==
    EnginePlugin(ENGINE_API_VERSION, FALSE, <<stubEngine1>>, <<Defined(KeepingEngine1)>>)
KeepingEnginePlugin2 ==
    EnginePlugin(ENGINE_API_VERSION, FALSE, <<stubEngine2>>, <<Defined(KeepingEngine2)>>)

KeepingPlugins == {StubEnginePlugin, KeepingEnginePlugin1, KeepingEnginePlugin2}

NextKept ==
    \/ \E plugin \in KeepingPlugins : AddEnginePlugin(plugin)
    \/ \E sels \in OverrideSelectorLists : SelectRules(sels)

SpecKept == InitOverrides /\ [][NextKept]_vars

(***************************************************************************)
(* The run call, one action for each stretch between its awaits.  The       *)
(* caller awaits it: no other call is made on the analyzer meanwhile.       *)
(***************************************************************************)
MaxEngineEvents == 1

\* await codeAnalyzer.run(selection, options), up to the loop (lines 96-99)
Run(options) ==
    /\ pc = "idle"
    /\ isDefined(selection)
    /\ runOptions' = Defined(options)
    /\ LET extracted == extractEngineRunOptions(options)
       IN  IF isDefined(extracted.error)
           THEN /\ pc' = "failed"
                /\ call' = [op |-> "run", plugin |-> Undefined, error |-> extracted.error]
                /\ engineRunOptions' = Undefined
                /\ emitted' = <<>>
           ELSE /\ pc' = "loop"
                /\ call' = [op |-> "run", plugin |-> Undefined, error |-> Undefined]
                /\ engineRunOptions' = Defined(extracted.value)
                /\ emitted' = <<LogEvent(LogLevelDebug,
                                  getMessage("RunningWithRunOptions", <<extracted.value>>))>>
    /\ history' = emitted'
    /\ engineIndex' = 1
    /\ engineEvents' = 0
    /\ runResults' = <<>>
    /\ UNCHANGED <<config, engines, allRules, adds, selVars, pathVars>>

\* The engine the loop of run is at
currentEngineName == getEngineNames(valueOf(selection))[engineIndex]

\* The loop of run, from its head to the call of runRules (lines 100-105, 124-130)
EngineBegin ==
    /\ pc = "loop"
    /\ engineIndex <= Len(getEngineNames(valueOf(selection)))
    /\ LET before == eventsBeforeRunRules(valueOf(selection), currentEngineName)
       IN  /\ emitted' = emitted \o before
           /\ history' = history \o before
                  \o <<runRulesCalled(currentEngineName, enginesHas(engines, currentEngineName),
                                      rulesToRun(valueOf(selection), currentEngineName),
                                      valueOf(engineRunOptions))>>
    /\ pc' = "running"
    /\ UNCHANGED <<config, engines, allRules, call, adds, selVars, runOptions,
                   engineRunOptions, engineIndex, engineEvents, runResults, pathVars>>

\* The engine in flight emits an event: the listeners of listenToEngineEvents, which
\* only a registered engine has, emit it again
EngineEmits(event) ==
    /\ pc = "running"
    /\ enginesHas(engines, currentEngineName)
    /\ engineEvents < MaxEngineEvents
    /\ engineEvents' = engineEvents + 1
    /\ LET engineName == valueOf(getEngine(engines, currentEngineName)).getName
           again == IF event.type = "LogEvent"
                    THEN EngineLogEvent(engineName, event.logLevel, event.message)
                    ELSE EngineProgressEvent(engineName, event.percentComplete)
       IN  /\ emitted' = Append(emitted, again)
           /\ history' = Append(history, again)
    /\ UNCHANGED <<config, engines, allRules, call, adds, selVars, pc, runOptions,
                   engineRunOptions, engineIndex, runResults, pathVars>>

\* The call of runRules settles and the loop body runs to its end (lines 131-136,
\* 105-113)
EngineSettles ==
    /\ pc = "running"
    /\ \E settled \in IF enginesHas(engines, currentEngineName)
                       THEN EngineOutcomes(valueOf(getEngine(engines, currentEngineName)))
                       ELSE {TypeErrorOutcome} :
       LET engineRunResults ==
               runEngineAndValidateResults(currentEngineName, settled, valueOf(selection))
           mark == runRulesSettled(currentEngineName, settled)
       IN  IF isDefined(engineRunResults.error)
           THEN /\ pc' = "failed"
                /\ call' = [call EXCEPT !.error = engineRunResults.error]
                /\ history' = Append(history, mark)
                /\ UNCHANGED <<emitted, runResults, engineIndex>>
           ELSE LET after == eventsAfterRunRules(currentEngineName, engineRunResults.value)
                IN  /\ runResults' = addEngineRunResults(runResults, engineRunResults.value)
                    /\ emitted' = emitted \o after
                    /\ history' = Append(history, mark) \o after
                    /\ engineIndex' = engineIndex + 1
                    /\ pc' = "loop"
                    /\ UNCHANGED call
    /\ UNCHANGED <<config, engines, allRules, adds, selVars, runOptions,
                   engineRunOptions, engineEvents, pathVars>>

\* The loop is over: run returns runResults (line 116)
RunReturns ==
    /\ pc = "loop"
    /\ engineIndex > Len(getEngineNames(valueOf(selection)))
    /\ pc' = "returned"
    /\ UNCHANGED <<regVars, selVars, runOptions, engineRunOptions, engineIndex,
                   engineEvents, runResults, history, pathVars>>

\* The plugins, selectors and run options tried with run
RunPlugins == {StubEnginePlugin, ContradictingEnginePlugin}

RunSelectorLists == { << <<"a","l","l">> >>, << CodeStyle >> }

RunOptionsTried ==
    { RunOptions(workspaceFiles, pathStartPoints) :
        workspaceFiles \in { <<>>, <<<<"/","x">>>>, <<<<"/","a">>>>, <<<<"/","a","/","f">>, <<"f">>>> },
        pathStartPoints \in { Undefined, Defined(<<<<"/","a","/","f","#","m","1",";","m","2">>>>), Defined(<<<<"/","x","#","m">>>>),
                              Defined(<<<<"/","a","/","f","#","1","m">>>>), Defined(<<<<"/","a","b","/","g">>>>) } }

Next ==
    \/ \E plugin \in RunPlugins : AddEnginePlugin(plugin)
    \/ \E sels \in RunSelectorLists : SelectRules(sels)
    \/ \E options \in RunOptionsTried : Run(options)
    \/ EngineBegin
    \/ \E event \in EngineEvents : EngineEmits(event)
    \/ EngineSettles
    \/ RunReturns

\* new CodeAnalyzer(CodeAnalyzerConfig.withDefaults())
InitRun == Init /\ config = DEFAULT_CONFIG

Spec == InitRun /\ [][Next]_vars

\* Runs over one workspace, of engines that emit nothing of their own
CountedRunOptions == { RunOptions(<<<<"/","a">>>>, Undefined) }

NextCounted ==
    \/ \E plugin \in RunPlugins : AddEnginePlugin(plugin)
    \/ \E sels \in RunSelectorLists : SelectRules(sels)
    \/ \E options \in CountedRunOptions : Run(options)
    \/ EngineBegin
    \/ EngineSettles
    \/ RunReturns

SpecCounted == InitRun /\ [][NextCounted]_vars

(***************************************************************************)
(* The event channel: CodeAnalyzer.onEvent, emitEvent and the listeners     *)
(* that listenToEngineEvents puts on a registered engine.  Both the         *)
(* orchestrator and an engine hold a Node EventEmitter: emit(type, event)   *)
(* calls the listeners registered for the type, in the order of their       *)
(* registration, before it returns.                                         *)
(***************************************************************************)
MaxListeners == 2

\* The kinds of events that callbacks are registered for
EventTypes == {"LogEvent", "EngineLogEvent", "EngineProgressEvent"}
Timestamps == {0, 1}

\* An event of the orchestrator: the fields of the event and the timestamp
stamped(event, timestamp) ==
    [field \in DOMAIN event \cup {"timestamp"} |->
        IF field = "timestamp" THEN timestamp ELSE event[field]]

\* A variant that calls the callbacks of every kind
listenersOfAnyType(registered, eventType) == registered

\* EventEmitter.listeners(eventType)
listenersOf(registered, eventType) ==
    SelectSeq(registered, LAMBDA listener : listener.eventType = eventType)

\* CodeAnalyzer.emitEvent on the channel ch = [listeners, published, received]; cause
\* is the number of the engine's event that it re-emits, 0 where it has none
emitEvent(ch, event, cause) ==
    LET called == listenersOf(ch.listeners, event.type)
        number == Len(ch.published) + 1
    IN  [ch EXCEPT
            !.published = Append(@, [event |-> event, registered |-> Len(ch.listeners),
                                     cause |-> cause]),
            !.received = @ \o [i \in 1..Len(called) |->
                                 [callback |-> called[i].callback,
                                  emission |-> number, event |-> event]]]

\* The events of one call, each emitted with the time of the clock
RECURSIVE emitEvents(_, _, _)
emitEvents(ch, events, timestamp) ==
    IF events = <<>> THEN ch
    ELSE emitEvents(emitEvent(ch, stamped(Head(events), timestamp), 0), Tail(events),
                    timestamp)

\* What the listeners of listenToEngineEvents emit for an event of the engine
reEmitted(engine, event, timestamp) ==
    IF event.type = "LogEvent"
    THEN stamped(EngineLogEvent(engine.getName, event.logLevel, event.message), timestamp)
    ELSE stamped(EngineProgressEvent(engine.getName, event.percentComplete), timestamp)

\* A variant whose listeners also listen to an engine that was not registered
isListenedToAlways(st, engineName, engine) == TRUE

\* addEngineIfValid reaches listenToEngineEvents(engine) where it has set the engine
isListenedTo(st, engineName, engine) ==
    Len(addEngineIfValid(st, engineName, engine).engines) > Len(st.engines)

\* The engines that createEngineFromPlugin returns during addEnginePlugin, from the
\* i-th name on, each with whether the orchestrator listens to it
RECURSIVE createdInstances(_, _, _, _)
createdInstances(st, conf, plugin, i) ==
    IF i > Len(plugin.getAvailableEngineNames) \/ isDefined(st.error)
          \/ ~isDefined(plugin.createEngine[i])
    THEN <<>>
    ELSE <<[engine |-> valueOf(plugin.createEngine[i]),
            listenedTo |-> isListenedTo(st, plugin.getAvailableEngineNames[i],
                                        valueOf(plugin.createEngine[i]))]>>
            \o createdInstances(addEngineOfPlugin(st, conf, plugin, i), conf, plugin, i + 1)

theChannel == [listeners |-> listeners, published |-> published, received |-> received]

\* codeAnalyzer.onEvent(eventType, callback) with a callback of its own, which is
\* told from the others by the number of its registration
OnEvent(eventType) ==
    /\ pc = "idle"
    /\ Len(listeners) < MaxListeners
    /\ listeners' = Append(listeners, [eventType |-> eventType,
                                       callback |-> Len(listeners) + 1])
    /\ UNCHANGED <<regVars, selVars, runVars, absolutePaths, filteredPaths, startPointStr,
                   startPointRecords, returnedLocation, locationOutcome, reportedViolation,
                   reportedUrls, clock, instances, engineEmitted, published, received,
                   scanVars>>

\* codeAnalyzer.setClock(clock)
SetClock(timestamp) ==
    /\ pc = "idle"
    /\ timestamp # clock
    /\ clock' = timestamp
    /\ UNCHANGED <<regVars, selVars, runVars, absolutePaths, filteredPaths, startPointStr,
                   startPointRecords, returnedLocation, locationOutcome, reportedViolation,
                   reportedUrls, listeners, instances, engineEmitted, published, received,
                   scanVars>>

\* addEnginePlugin where callbacks are registered: its log events reach them, and the
\* engines it creates are there to emit events of their own
AddEnginePluginHeard(plugin) ==
    /\ AddEnginePluginCall(plugin)
    /\ LET ch == emitEvents(theChannel, emitted', clock)
       IN  /\ published' = ch.published
           /\ received' = ch.received
    /\ instances' = instances \o
          (IF plugin.namesThrow THEN <<>>
           ELSE createdInstances([engines |-> engines, allRules |-> allRules,
                                  emitted |-> <<>>, error |-> Undefined], config, plugin, 1))
    /\ UNCHANGED <<absolutePaths, filteredPaths, startPointStr, startPointRecords,
                   returnedLocation, locationOutcome, reportedViolation, reportedUrls,
                   clock, listeners, engineEmitted,
                   scanVars>>

\* The n-th engine instance emits an event (Engine.emitEvent): where the orchestrator
\* listens to the instance, its listener of the event's type emits the event again
EngineInstanceEmits(n, event) ==
    /\ pc = "idle"
    /\ n \in 1..Len(instances)
    /\ Len(engineEmitted) < MaxEngineEvents
    /\ engineEmitted' = Append(engineEmitted,
                               [instance |-> n, event |-> event, time |-> clock])
    /\ LET ch == IF instances[n].listenedTo
                 THEN emitEvent(theChannel, reEmitted(instances[n].engine, event, clock),
                                Len(engineEmitted) + 1)
                 ELSE theChannel
       IN  /\ published' = ch.published
           /\ received' = ch.received
    /\ UNCHANGED <<regVars, selVars, runVars, absolutePaths, filteredPaths, startPointStr,
                   startPointRecords, returnedLocation, locationOutcome, reportedViolation,
                   reportedUrls, clock, listeners, instances,
                   scanVars>>

EventPlugins == {StubEnginePlugin, ContradictingEnginePlugin}

\* Callbacks are registered while plugins are added and engines emit events
NextEvents ==
    \/ \E eventType \in EventTypes : OnEvent(eventType)
    \/ AddEnginePluginHeard(StubEnginePlugin)
    \/ \E n \in 1..(2 * MaxAdds) :
          \E event \in {e \in EngineEvents : e.type = "LogEvent"} :
             EngineInstanceEmits(n, event)

SpecEvents == InitRun /\ [][NextEvents]_vars

\* Engines emit events while plugins are added and the clock is replaced
NextEngineEvents ==
    \/ \E timestamp \in Timestamps : SetClock(timestamp)
    \/ \E plugin \in EventPlugins : AddEnginePluginHeard(plugin)
    \/ \E n \in 1..(2 * MaxAdds), event \in EngineEvents : EngineInstanceEmits(n, event)

SpecEngineEvents == InitRun /\ [][NextEngineEvents]_vars

(***************************************************************************)
(* AdvancedRetireJsExecutor.execute, one action for each stretch between    *)
(* its awaits.  RetireJsEngine.runRules calls it on the one executor of the *)
(* engine; a second call may begin while the first is suspended.  The files *)
(* to scan are text files; retire reports every file of the folder it       *)
(* scans.                                                                   *)
(***************************************************************************)
JS_EXTENSIONS == {".js", ".mjs", ".cjs"}

\* path.parse(file): the folder, the name with its extension, the extension
ParsedPath(dir, base, ext) == [dir |-> dir, base |-> base, ext |-> ext]

ScanFiles == {ParsedPath("/x", "a.js", ".js"), ParsedPath("/x", "r.resource", ".resource"),
              ParsedPath("/y", "a.js", ".js")}

\* Map.has, Map.get and Map.set of a Map kept as its entries in insertion order
mapHas(map, key) == \E i \in 1..Len(map) : map[i].key = key

mapGet(map, key) ==
    IF mapHas(map, key)
    THEN Defined(map[CHOOSE i \in 1..Len(map) : map[i].key = key].value)
    ELSE Undefined

mapSet(map, key, value) ==
    IF mapHas(map, key)
    THEN [i \in 1..Len(map) |-> IF map[i].key = key THEN [key |-> key, value |-> value]
                                ELSE map[i]]
    ELSE Append(map, [key |-> key, value |-> value])

\* `${this.parentTempDir}${path.sep}TMPDIR_${this.uniqNameCounter++}`
makeUniqueTempDirName(ex) == [parent |-> ex.parentTempDir, number |-> ex.uniqNameCounter]

\* The loop of prepareTempDirs over the text files, from the i-th on
RECURSIVE prepareTempDirs(_, _, _)
prepareTempDirs(ex, textFiles, i) ==
    IF i > Len(textFiles) THEN ex
    ELSE IF mapHas(ex.origToTempDirMap, textFiles[i].dir)
         THEN prepareTempDirs(ex, textFiles, i + 1)
         ELSE prepareTempDirs(
                 [ex EXCEPT !.origToTempDirMap =
                                mapSet(@, textFiles[i].dir, makeUniqueTempDirName(ex)),
                            !.uniqNameCounter = @ + 1],
                 textFiles, i + 1)

\* The name of the copy and whether the counter was used for it
makeUniqueJsFileNameFor(ex, fileInfo) ==
    IF fileInfo.ext \in JS_EXTENSIONS
    THEN [name |-> <<fileInfo.base>>, used |-> 0]
    ELSE [name |-> <<"TMPFILE", ex.uniqNameCounter>>, used |-> 1]

\* processTextFile up to its call of linkOrCopy: the executor after it and the copy
\* that it starts; the folder is undefined where origToTempDirMap has no entry
processTextFile(ex, origTextFile) ==
    LET tempDir == mapGet(ex.origToTempDirMap, origTextFile.dir)
        fileNameWithJsExt == makeUniqueJsFileNameFor(ex, origTextFile)
        tempTextFile == [dir |-> tempDir, name |-> fileNameWithJsExt.name]
    IN  [ex |-> [ex EXCEPT !.uniqNameCounter = @ + fileNameWithJsExt.used,
                           !.tempToOrigFileMap = mapSet(@, tempTextFile, origTextFile)],
         copy |-> [orig |-> origTextFile, temp |-> tempTextFile]]

\* textFiles.map(file => this.processTextFile(file)), from the i-th file on
RECURSIVE processTextFiles(_, _, _)
processTextFiles(ex, textFiles, i) ==
    IF i > Len(textFiles) THEN [ex |-> ex, copies |-> <<>>]
    ELSE LET first == processTextFile(ex, textFiles[i])
             rest == processTextFiles(first.ex, textFiles, i + 1)
         IN  [ex |-> rest.ex, copies |-> <<first.copy>> \o rest.copies]

\* execute(filesAndFoldersToScan) up to the await of createTempDir in prepareTempDirs
Execute(p, files) ==
    /\ executions[p].pc = "none"
    /\ executor' = [executor EXCEPT !.origToTempDirMap = <<>>, !.tempToOrigFileMap = <<>>,
                                    !.uniqNameCounter = 0]
    /\ executions' = [executions EXCEPT ![p] = [@ EXCEPT !.pc = "createTempDir",
                                                         !.files = files]]
    /\ UNCHANGED <<regVars, selVars, runVars, absolutePaths, filteredPaths, startPointStr,
                   startPointRecords, returnedLocation, locationOutcome, reportedViolation,
                   reportedUrls, eventVars, tempFolder>>

\* createTempDir() returned a new directory: the rest of prepareTempDirs, up to the
\* await of the mkdir calls
TempDirCreated(p) ==
    /\ executions[p].pc = "createTempDir"
    /\ tempFolder' = [tempFolder EXCEPT !.made = @ + 1]
    /\ executor' = prepareTempDirs([executor EXCEPT !.parentTempDir = Defined(tempFolder.made + 1)],
                                   executions[p].files, 1)
    /\ executions' = [executions EXCEPT ![p] = [@ EXCEPT !.pc = "mkdir"]]
    /\ UNCHANGED <<regVars, selVars, runVars, absolutePaths, filteredPaths, startPointStr,
                   startPointRecords, returnedLocation, locationOutcome, reportedViolation,
                   reportedUrls, eventVars>>

\* The folders are made: processTextFile for each text file, up to the await of the
\* copies
DirsMade(p) ==
    /\ executions[p].pc = "mkdir"
    /\ LET processed == processTextFiles(executor, executions[p].files, 1)
       IN  /\ executor' = processed.ex
           /\ executions' = [executions EXCEPT ![p] = [@ EXCEPT !.pc = "linkOrCopy",
                                                                !.copies = processed.copies]]
    /\ UNCHANGED <<regVars, selVars, runVars, absolutePaths, filteredPaths, startPointStr,
                   startPointRecords, returnedLocation, locationOutcome, reportedViolation,
                   reportedUrls, eventVars, tempFolder>>

\* The copies are done, but for those into an undefined folder, which fail the call;
\* else simpleExecutor.execute([this.parentTempDir]) begins
CopiesDone(p) ==
    /\ executions[p].pc = "linkOrCopy"
    /\ LET copies == executions[p].copies
           copied == {copies[i].temp : i \in {j \in 1..Len(copies) : isDefined(copies[j].temp.dir)}}
       IN  /\ tempFolder' = [tempFolder EXCEPT !.files = @ \cup copied]
           /\ executions' = [executions EXCEPT ![p] =
                  IF \E i \in 1..Len(copies) : ~isDefined(copies[i].temp.dir)
                  THEN [@ EXCEPT !.pc = "failed"]
                  ELSE [@ EXCEPT !.pc = "retire", !.scanned = executor.parentTempDir]]
    /\ UNCHANGED <<regVars, selVars, runVars, absolutePaths, filteredPaths, startPointStr,
                   startPointRecords, returnedLocation, locationOutcome, reportedViolation,
                   reportedUrls, eventVars, executor>>

\* The retire command runs on the folder and reports the files it finds there
RetireRuns(p) ==
    /\ executions[p].pc = "retire"
    /\ executions' = [executions EXCEPT ![p] =
           [@ EXCEPT !.pc = "retired",
                     !.found = {file \in tempFolder.files :
                                   valueOf(file.dir).parent = executions[p].scanned}]]
    /\ UNCHANGED <<regVars, selVars, runVars, absolutePaths, filteredPaths, startPointStr,
                   startPointRecords, returnedLocation, locationOutcome, reportedViolation,
                   reportedUrls, eventVars, executor, tempFolder>>

\* simpleExecutor.execute returned: the file of each finding is looked up in
\* tempToOrigFileMap, and execute returns
ExecuteReturns(p) ==
    /\ executions[p].pc = "retired"
    /\ executions' = [executions EXCEPT ![p] =
           [@ EXCEPT !.pc = "returned",
                     !.findings = {mapGet(executor.tempToOrigFileMap, file) :
                                      file \in executions[p].found}]]
    /\ UNCHANGED <<regVars, selVars, runVars, absolutePaths, filteredPaths, startPointStr,
                   startPointRecords, returnedLocation, locationOutcome, reportedViolation,
                   reportedUrls, eventVars, executor, tempFolder>>

NextExecute ==
    \/ \E p \in Calls, file \in ScanFiles : Execute(p, <<file>>)
    \/ \E p \in Calls : TempDirCreated(p)
    \/ \E p \in Calls : DirsMade(p)
    \/ \E p \in Calls : CopiesDone(p)
    \/ \E p \in Calls : RetireRuns(p)
    \/ \E p \in Calls : ExecuteReturns(p)

SpecExecute == InitRun /\ [][NextExecute]_vars

(***************************************************************************)
(* removeRedundantPaths on its own: every list of up to MaxPaths paths of   *)
(* a small tree that has the root, a folder, a folder beneath it, a file    *)
(* beneath that, and a sibling whose name begins like the folder's.         *)
(***************************************************************************)
MaxPaths == 3

AbsolutePaths == {<<"/">>, <<"/","a">>, <<"/","a","/","b">>, <<"/","a","/","b","/","c",".","t">>, <<"/","a","b">>}

InitPaths ==
    /\ config = DEFAULT_CONFIG
    /\ engines = <<>>
    /\ allRules = <<>>
    /\ emitted = <<>>
    /\ call = NoCall
    /\ adds = 0
    /\ selectors = Undefined
    /\ selection = Undefined
    /\ pc = "idle"
    /\ runOptions = Undefined
    /\ engineRunOptions = Undefined
    /\ engineIndex = 1
    /\ engineEvents = 0
    /\ runResults = <<>>
    /\ history = <<>>
    /\ absolutePaths \in SeqsUpTo(AbsolutePaths, MaxPaths)
    /\ filteredPaths = Undefined
    /\ startPointStr = <<>>
    /\ startPointRecords = Undefined
    /\ returnedLocation = Location1
    /\ locationOutcome = Undefined
    /\ reportedViolation = Undefined
    /\ reportedUrls = Undefined
    /\ NoEvents
    /\ NoExecutions

\* filteredPaths = removeRedundantPaths(absolutePaths)
RemoveRedundantPaths ==
    /\ ~isDefined(filteredPaths)
    /\ filteredPaths' = Defined(removeRedundantPaths(absolutePaths))
    /\ UNCHANGED <<regVars, selVars, runVars, absolutePaths, startPointStr, startPointRecords,
                   returnedLocation, locationOutcome, reportedViolation, reportedUrls,
                   eventVars, scanVars>>

NextPaths == RemoveRedundantPaths

SpecPaths == InitPaths /\ [][NextPaths]_vars

(***************************************************************************)
(* extractEnginePathStartPoints on its own: the start point strings are a   *)
(* path followed by up to MaxPieces pieces of method lists.                 *)
(***************************************************************************)
MaxPieces == 4

\* The paths tried: a file, a folder, a path that does not exist
StartPointPaths == { <<"/","a","/","f">>, <<"/","a">>, <<"/","x">> }

StartPointPieces == { <<"#">>, <<";">>, <<" ">>, <<"m","1">>, <<"m","_","2">>, <<"1","m">> }

RECURSIVE StartPointTails(_)
StartPointTails(n) ==
    IF n = 0 THEN {<<>>}
    ELSE StartPointTails(n - 1)
           \cup {tail \o piece : tail \in StartPointTails(n - 1), piece \in StartPointPieces}

InitStartPoints ==
    /\ config = DEFAULT_CONFIG
    /\ engines = <<>>
    /\ allRules = <<>>
    /\ emitted = <<>>
    /\ call = NoCall
    /\ adds = 0
    /\ selectors = Undefined
    /\ selection = Undefined
    /\ pc = "idle"
    /\ runOptions = Undefined
    /\ engineRunOptions = Undefined
    /\ engineIndex = 1
    /\ engineEvents = 0
    /\ runResults = <<>>
    /\ history = <<>>
    /\ absolutePaths = <<>>
    /\ filteredPaths = Undefined
    /\ startPointStr \in {path \o tail : path \in StartPointPaths, tail \in StartPointTails(MaxPieces)}
    /\ startPointRecords = Undefined
    /\ returnedLocation = Location1
    /\ locationOutcome = Undefined
    /\ reportedViolation = Undefined
    /\ reportedUrls = Undefined
    /\ NoEvents
    /\ NoExecutions

\* startPointRecords = extractEnginePathStartPoints(startPointStr), or what it threw
ExtractEnginePathStartPoints ==
    /\ ~isDefined(startPointRecords)
    /\ startPointRecords' = Defined(extractEnginePathStartPoints(startPointStr))
    /\ UNCHANGED <<regVars, selVars, runVars, absolutePaths, filteredPaths, startPointStr,
                   returnedLocation, locationOutcome, reportedViolation, reportedUrls,
                   eventVars, scanVars>>

NextStartPoints == ExtractEnginePathStartPoints

SpecStartPoints == InitStartPoints /\ [][NextStartPoints]_vars

(***************************************************************************)
(* The validation of one code location and what the results report of it:  *)
(* validateViolationCodeLocations on a violation that holds the location,  *)
(* then the CodeLocationImpl that wraps it.                                *)
(***************************************************************************)
MaxLine == 2

\* Lines and columns tried: -1 to MaxLine, and the halves between them
LineValues == (0 - Halves) .. Number(MaxLine)

\* The files tried: a file, a folder, a path that does not exist
LocationFiles == { <<"/","a","/","f">>, <<"/","a">>, <<"/","x">> }

InitLocations ==
    /\ config = DEFAULT_CONFIG
    /\ engines = <<>>
    /\ allRules = <<>>
    /\ emitted = <<>>
    /\ call = NoCall
    /\ adds = 0
    /\ selectors = Undefined
    /\ selection = Undefined
    /\ pc = "idle"
    /\ runOptions = Undefined
    /\ engineRunOptions = Undefined
    /\ engineIndex = 1
    /\ engineEvents = 0
    /\ runResults = <<>>
    /\ history = <<>>
    /\ absolutePaths = <<>>
    /\ filteredPaths = Undefined
    /\ startPointStr = <<>>
    /\ startPointRecords = Undefined
    /\ returnedLocation \in
         { CodeLocation(file, startLine, startColumn, endLine, endColumn) :
             file \in LocationFiles, startLine \in LineValues, startColumn \in LineValues,
             endLine \in {Undefined} \cup {Defined(v) : v \in LineValues},
             endColumn \in {Undefined} \cup {Defined(v) : v \in LineValues} }
    /\ locationOutcome = Undefined
    /\ reportedViolation = Undefined
    /\ reportedUrls = Undefined
    /\ NoEvents
    /\ NoExecutions

\* locationOutcome = the error that validateViolationCodeLocations throws for a violation
\* of stubEngine1 whose only code location is returnedLocation, and the CodeLocationImpl
\* of returnedLocation
ValidateCodeLocation ==
    /\ ~isDefined(locationOutcome)
    /\ locationOutcome' = Defined(
         [error |-> validateViolationCodeLocations(
                        Violation(stub1RuleA, "m", <<returnedLocation>>, Number(0)), stubEngine1),
          codeLocation |-> CodeLocationImpl(returnedLocation)])
    /\ UNCHANGED <<regVars, selVars, runVars, absolutePaths, filteredPaths, startPointStr,
                   startPointRecords, returnedLocation, reportedViolation, reportedUrls,
                   eventVars, scanVars>>

NextLocations == ValidateCodeLocation

SpecLocations == InitLocations /\ [][NextLocations]_vars

(***************************************************************************)
(* The resource urls of one violation: getResourceUrls() of the            *)
(* ViolationImpl of a violation, with or without urls of its own, bound to *)
(* a rule with urls.                                                       *)
(***************************************************************************)
MaxUrls == 2

\* The urls tried: two that differ in case only, and a third
Urls == { <<"u">>, <<"U">>, <<"v">> }

InitUrls ==
    /\ config = DEFAULT_CONFIG
    /\ engines = <<>>
    /\ allRules = <<>>
    /\ emitted = <<>>
    /\ call = NoCall
    /\ adds = 0
    /\ selectors = Undefined
    /\ selection = Undefined
    /\ pc = "idle"
    /\ runOptions = Undefined
    /\ engineRunOptions = Undefined
    /\ engineIndex = 1
    /\ engineEvents = 0
    /\ runResults = <<>>
    /\ history = <<>>
    /\ absolutePaths = <<>>
    /\ filteredPaths = Undefined
    /\ startPointStr = <<>>
    /\ startPointRecords = Undefined
    /\ returnedLocation = Location1
    /\ locationOutcome = Undefined
    /\ reportedViolation \in
         { Defined([apiViolation |-> violation,
                    rule |-> RuleImpl(stubEngine1,
                                [StubEngine1.describeRules[1] EXCEPT !.resourceUrls = ruleUrls])]) :
             ruleUrls \in SeqsUpTo(Urls, MaxUrls),
             violation \in {Violation(stub1RuleA, "m", <<Location1>>, Number(0))}
                 \cup {withResourceUrls(Violation(stub1RuleA, "m", <<Location1>>, Number(0)), urls) :
                         urls \in SeqsUpTo(Urls, MaxUrls)} }
    /\ reportedUrls = Undefined
    /\ NoEvents
    /\ NoExecutions

\* reportedUrls = new ViolationImpl(apiViolation, rule).getResourceUrls()
GetResourceUrls ==
    /\ ~isDefined(reportedUrls)
    /\ reportedUrls' = Defined(ViolationImpl(valueOf(reportedViolation).apiViolation,
                                             valueOf(reportedViolation).rule).resourceUrls)
    /\ UNCHANGED <<regVars, selVars, runVars, absolutePaths, filteredPaths, startPointStr,
                   startPointRecords, returnedLocation, locationOutcome, reportedViolation,
                   eventVars, scanVars>>

NextUrls == GetResourceUrls

SpecUrls == InitUrls /\ [][NextUrls]_vars


(***************************************************************************)
(* Notions the claims are stated with, defined without the code's helpers.  *)
(***************************************************************************)
\* Two characters that are equal, or the same letter in the two cases
sameLetter(c, d) ==
    \/ c = d
    \/ \E k \in 1..Len(UpperCaseLetters) : {c, d} = {UpperCaseLetters[k], LowerCaseLetters[k]}

equalIgnoringCase(a, b) == Len(a) = Len(b) /\ \A i \in 1..Len(a) : sameLetter(a[i], b[i])

\* The colon-delimited parts of a selector: the substrings between neighbouring
\* boundaries, a boundary being a colon, the place before the string or after it
colonParts(sel) ==
    LET bounds == {0, Len(sel) + 1} \cup {k \in 1..Len(sel) : sel[k] = ":"}
    IN  {SubSeq(sel, b + 1, c - 1) :
            <<b, c>> \in {bc \in bounds \X bounds :
                            bc[1] < bc[2] /\ \A k \in bounds : ~(bc[1] < k /\ k < bc[2])}}

\* The token set of a rule
tokenSet(rule) ==
    {<<"a","l","l">>, rule.engineName, rule.ruleDesc.name,
     SeverityLevelName(rule.ruleDesc.severityLevel), <<DecimalDigits[rule.ruleDesc.severityLevel]>>}
    \cup Range(rule.ruleDesc.tags)

selectorMatches(sel, rule) ==
    \A part \in colonParts(sel) : \E token \in tokenSet(rule) : equalIgnoringCase(part, token)

\* The places (entry, index) of a selection that hold a rule of that engine and name
placesOf(ruleMap, engineName, ruleName) ==
    {<<i, j>> \in (1..Len(ruleMap)) \X (1..Len(allRules) + 1) :
        /\ j <= Len(ruleMap[i].rules)
        /\ ruleMap[i].rules[j].engineName = engineName
        /\ ruleMap[i].rules[j].ruleDesc.name = ruleName}

rulesOf(ruleMap) == UNION {Range(ruleMap[i].rules) : i \in 1..Len(ruleMap)}

\* A step that is an addEnginePlugin call, and one that is the selectRules call
isAddStep == adds' = adds + 1
isSelectStep == ~isDefined(selection) /\ isDefined(selection')

\* The engines of a plugin that addEnginePlugin must reject, given the names that are
\* registered when the call starts: the i-th is rejected when its name is taken (by
\* an engine registered before the call or accepted earlier in it), when its
\* getName() differs from the advertised name, or when its validate() throws.
wellFormed(plugin, i) ==
    /\ isDefined(plugin.createEngine[i])
    /\ valueOf(plugin.createEngine[i]).getName = plugin.getAvailableEngineNames[i]
    /\ ~valueOf(plugin.createEngine[i]).validateThrows

rejected(plugin, registered, i) ==
    /\ isDefined(plugin.createEngine[i])
    /\ \/ ~wellFormed(plugin, i)
       \/ plugin.getAvailableEngineNames[i] \in registered
       \/ \E j \in 1..(i-1) : /\ wellFormed(plugin, j)
                              /\ plugin.getAvailableEngineNames[j] = plugin.getAvailableEngineNames[i]

\* The name at place i is advertised at no other place of the list
nameOnce(names, i) == \A j \in 1..Len(names) : j # i => names[j] # names[i]

errorEvents(events) == SelectSeq(events, LAMBDA e : e.type = "LogEvent" /\ e.logLevel = LogLevelError)

(***************************************************************************)
(* C1.  selectRules is a union of intersections: for every catalog and      *)
(* every non-empty selector list, a rule is in the returned selection if    *)
(* and only if at least one selector has every colon-delimited part, taken  *)
(* case-insensitively, in the rule's token set.                             *)
(***************************************************************************)
C1_UnionOfIntersections ==
    [][ (isSelectStep /\ Len(valueOf(selectors')) > 0) =>
            \A rule \in Range(allRules) \cup rulesOf(valueOf(selection')) :
                (rule \in rulesOf(valueOf(selection')))
                <=> (/\ rule \in Range(allRules)
                     /\ \E i \in 1..Len(valueOf(selectors')) :
                            selectorMatches(valueOf(selectors')[i], rule)) ]_vars

\* A selection taken with a two-part selector that matches one rule and rejects
\* another, beside a selector that matches nothing.
C1_Witness ==
    /\ isDefined(selection)
    /\ valueOf(selectors) = <<<<"s","t","u","b","E","n","g","i","n","e","1",":","D","o","e","s","N","o","t","E","x","i","s","t">>, <<"S","e","c","u","r","i","t","y",":","3">>>>
    /\ \E rule \in rulesOf(valueOf(selection)) : rule.ruleDesc.name = stub2RuleA
    /\ \E i \in 1..Len(allRules) : allRules[i] \notin rulesOf(valueOf(selection))

(***************************************************************************)
(* C2.  After any sequence of addEnginePlugin calls, every selection holds  *)
(* each (engineName, ruleName) pair at most once, getCount() is the sum of  *)
(* the per-engine list lengths, and selectRules('all') returns every rule of *)
(* the catalog exactly once.                                                *)
(***************************************************************************)
C2_SelectionHoldsEachRuleOnce ==
    [][ isSelectStep =>
          LET ruleMap == valueOf(selection')
              total   == Cardinality({<<i, j>> \in (1..Len(ruleMap)) \X (1..Len(allRules) + 1) :
                                         j <= Len(ruleMap[i].rules)})
          IN  /\ \A rule \in rulesOf(ruleMap) :
                    Cardinality(placesOf(ruleMap, rule.engineName, rule.ruleDesc.name)) <= 1
              /\ getCount(ruleMap) = total
              /\ valueOf(selectors') = << <<"a","l","l">> >> =>
                    \A rule \in Range(allRules) :
                        Cardinality(placesOf(ruleMap, rule.engineName, rule.ruleDesc.name)) = 1 ]_vars

(***************************************************************************)
(* C3.  An engine that addEnginePlugin rejects (name already registered,    *)
(* getName() differing from the advertised name, validate() throwing) is    *)
(* skipped: it is not registered and none of its rule descriptions is added *)
(* to the catalog.                                                          *)
(***************************************************************************)
C3_RejectedEngineAddsNoRules ==
    [][ (isAddStep /\ ~valueOf(call'.plugin).namesThrow) =>
          LET plugin     == valueOf(call'.plugin)
              registered == Range(registeredEngineNames(engines))
              names      == plugin.getAvailableEngineNames
          IN  \A i \in 1..Len(names) :
                 rejected(plugin, registered, i) =>
                    /\ (names[i] \in registered
                           => getEngine(engines', names[i]) = getEngine(engines, names[i]))
                    /\ (names[i] \notin registered /\ nameOnce(names, i))
                           => ~enginesHas(engines', names[i])
                    /\ nameOnce(names, i)
                           => \A k \in (Len(allRules) + 1)..Len(allRules') :
                                 allRules'[k].engineName # names[i] ]_vars

(***************************************************************************)
(* C4.  A registration conflict never aborts addEnginePlugin: a call whose  *)
(* plugin has no other fault than rejected engines emits exactly one Error  *)
(* LogEvent per rejected engine, completes without throwing, registers the  *)
(* plugin's other engines and leaves the registered names otherwise as      *)
(* they were.                                                               *)
(***************************************************************************)
conflictsOnly(plugin, registered) ==
    /\ ~plugin.namesThrow
    /\ \A i \in 1..Len(plugin.getAvailableEngineNames) :
          /\ isDefined(plugin.createEngine[i])
          /\ ~rejected(plugin, registered, i) =>
                /\ ~valueOf(plugin.createEngine[i]).describeThrows
                /\ \A a, b \in 1..Len(valueOf(plugin.createEngine[i]).describeRules) :
                      a # b => valueOf(plugin.createEngine[i]).describeRules[a].name
                                 # valueOf(plugin.createEngine[i]).describeRules[b].name

C4_ConflictNeverAborts ==
    [][ isAddStep =>
          LET plugin     == valueOf(call'.plugin)
              registered == Range(registeredEngineNames(engines))
              names      == plugin.getAvailableEngineNames
          IN  conflictsOnly(plugin, registered) =>
                /\ ~isDefined(call'.error)
                /\ Len(errorEvents(emitted')) =
                      Cardinality({i \in 1..Len(names) : rejected(plugin, registered, i)})
                /\ Range(registeredEngineNames(engines')) =
                      registered \cup {names[i] : i \in {j \in 1..Len(names) :
                                                           ~rejected(plugin, registered, j)}} ]_vars

(***************************************************************************)
(* Notions the claims about run are stated with.                            *)
(***************************************************************************)
\* The names on the way from the root to a path: what lies between its slashes
segments(path) ==
    LET bounds == {0, Len(path) + 1} \cup {k \in 1..Len(path) : path[k] = "/"}
        cuts   == {bc \in bounds \X bounds :
                     /\ bc[1] + 1 < bc[2]
                     /\ \A k \in bounds : ~(bc[1] < k /\ k < bc[2])}
    IN  [n \in 1..Cardinality(cuts) |->
            LET bc == CHOOSE c \in cuts : Cardinality({d \in cuts : d[1] < c[1]}) = n - 1
            IN  SubSeq(path, bc[1] + 1, bc[2] - 1)]

\* path lies beneath folder: the folder's names are the first names of the path
isDescendant(path, folder) ==
    /\ Len(segments(folder)) < Len(segments(path))
    /\ SubSeq(segments(path), 1, Len(segments(folder))) = segments(folder)

\* The engines of the selection, in its order, and the rule names it has for one
selectedEngines == getEngineNames(valueOf(selection))
selectedRuleNames(engineName) ==
    {rule.ruleDesc.name : rule \in {r \in rulesOf(valueOf(selection)) : r.engineName = engineName}}

\* A count of halves that is a whole number of at least low
wholeFrom(low, value) == \E n \in low..value : value = n * Halves

\* history[i] records that the call of runRules for an engine threw, or returned
engineThrew(i) == history[i].type = "runRulesSettled" /\ isDefined(history[i].settled.error)
engineReturned(i) == history[i].type = "runRulesSettled" /\ ~isDefined(history[i].settled.error)

\* The places of runResults that hold the results of an engine
entriesOf(engineName) == {k \in 1..Len(runResults) : runResults[k].engineName = engineName}

\* The index of a violation is within its code locations
indexInRange(violation) ==
    \E n \in 0..(Len(violation.codeLocations) - 1) : violation.primaryLocationIndex = n * Halves

\* A code location names an existing file that is no folder
namesFile(codeLocation) == toAbsolutePath(codeLocation.file) \in Files

\* The lines and columns of a code location are valid: endColumn counts only beside
\* an endLine
validLinesAndColumns(codeLocation) ==
    /\ wholeFrom(1, codeLocation.startLine)
    /\ wholeFrom(1, codeLocation.startColumn)
    /\ isDefined(codeLocation.endLine) =>
          /\ wholeFrom(1, valueOf(codeLocation.endLine))
          /\ isDefined(codeLocation.endColumn) => wholeFrom(1, valueOf(codeLocation.endColumn))

\* A violation fails validation in one of the ways C6 lists
failsValidation(violation, engineName) ==
    \/ violation.ruleName \notin selectedRuleNames(engineName)
    \/ ~indexInRange(violation)
    \/ \E l \in 1..Len(violation.codeLocations) :
          ~namesFile(violation.codeLocations[l]) \/ ~validLinesAndColumns(violation.codeLocations[l])

\* A violation passes validation: none of those ways, and no end before its start
passesValidation(violation, engineName) ==
    /\ ~failsValidation(violation, engineName)
    /\ \A l \in 1..Len(violation.codeLocations) :
          LET loc == violation.codeLocations[l]
          IN  isDefined(loc.endLine) =>
                /\ valueOf(loc.endLine) >= loc.startLine
                /\ (isDefined(loc.endColumn) /\ valueOf(loc.endLine) = loc.startLine)
                      => valueOf(loc.endColumn) >= loc.startColumn

(***************************************************************************)
(* C5.  If an engine's run call throws during run, the error is not         *)
(* propagated: that engine's entry in the RunResults holds exactly one      *)
(* violation, of the synthetic UnexpectedEngineError rule (severity         *)
(* Critical, type UnexpectedError) with a message that carries the error's  *)
(* text, and every other engine of the selection is still called, its own   *)
(* results being in the RunResults that run returns.  The call of line 130  *)
(* is the run call, so an engine that is looked up as undefined is one      *)
(* whose run call throws.                                                   *)
(***************************************************************************)
C5_EngineErrorBecomesViolation ==
    /\ \A i \in 1..Len(history) :
          engineThrew(i) =>
             /\ ~(i = Len(history) /\ pc = "failed")
             /\ Cardinality(entriesOf(history[i].engineName)) = 1
             /\ \A k \in entriesOf(history[i].engineName) :
                   LET violations == getViolations(runResults[k], valueOf(selection))
                   IN  /\ Len(violations) = 1
                       /\ violations[1].rule.engineName = history[i].engineName
                       /\ violations[1].rule.ruleDesc.name = <<"U","n","e","x","p","e","c","t","e","d","E","n","g","i","n","e","E","r","r","o","r">>
                       /\ violations[1].rule.ruleDesc.severityLevel = Critical
                       /\ violations[1].rule.ruleDesc.type = "UnexpectedError"
                       /\ \E a \in 1..Len(violations[1].message.args) :
                             violations[1].message.args[a] = valueOf(history[i].settled.error)
    /\ pc = "returned" =>
          \A n \in 1..Len(selectedEngines) :
             /\ \E i \in 1..Len(history) : /\ history[i].type = "runRulesCalled"
                                           /\ history[i].engineName = selectedEngines[n]
             /\ \A i \in 1..Len(history) :
                   (engineReturned(i) /\ history[i].engineName = selectedEngines[n]) =>
                      /\ Cardinality(entriesOf(selectedEngines[n])) = 1
                      /\ \A k \in entriesOf(selectedEngines[n]) :
                            runResults[k].apiEngineRunResults = Defined(history[i].settled.value)

\* run returned after a registered engine threw and the engine after it reported a
\* violation of its own
C5_Witness ==
    /\ pc = "returned"
    /\ Len(runResults) = 2
    /\ \E i \in 1..Len(history) : /\ engineThrew(i)
                                  /\ history[i].engineName = selectedEngines[1]
                                  /\ enginesHas(engines, selectedEngines[1])
    /\ isDefined(runResults[1].error)
    /\ isDefined(runResults[2].apiEngineRunResults)
    /\ Len(getViolations(runResults[2], valueOf(selection))) = 1

(***************************************************************************)
(* C6.  If an engine returns a result with a violation that fails           *)
(* validation (rule not in the engine's selection, primaryLocationIndex out *)
(* of range or not an integer, a code location file that does not exist or  *)
(* is a folder, an invalid line or column), run fails with an error that    *)
(* reaches the caller: no RunResults is returned, the result is not turned  *)
(* into a synthetic violation and no later engine is called.                *)
(***************************************************************************)
C6_InvalidResultFailsRun ==
    \A i \in 1..Len(history) :
        (/\ engineReturned(i)
         /\ \E v \in Range(history[i].settled.value.violations) :
                failsValidation(v, history[i].engineName))
        => /\ i = Len(history)
           /\ pc = "failed"
           /\ isDefined(call.error)
           /\ entriesOf(history[i].engineName) = {}

\* run failed on the result of the first of two selected engines, a violation in a
\* folder; the second engine was never called
C6_Witness ==
    /\ pc = "failed"
    /\ Len(selectedEngines) = 2
    /\ engineIndex = 1
    /\ Len(history) > 0
    /\ engineReturned(Len(history))
    /\ \E v \in Range(history[Len(history)].settled.value.violations) :
          /\ Len(v.codeLocations) = 1
          /\ toAbsolutePath(v.codeLocations[1].file) \in Folders
    /\ valueOf(call.error).id = "EngineReturnedViolationWithCodeLocationFileAsFolder"

(***************************************************************************)
(* C7.  Within one run, for each engine in the selection's order the        *)
(* orchestrator emits EngineProgressEvent(0), then calls the engine's       *)
(* runRules, and only once that call has settled emits                      *)
(* EngineProgressEvent(100) and then EngineResultsEvent; the next engine's  *)
(* 0% event and call come only after the previous engine's                  *)
(* EngineResultsEvent, so at most one call is in flight and what the engine *)
(* emits while running lies between its 0% and its 100%.  The call of line  *)
(* 130 is the invocation, also where it throws at once because the engine   *)
(* looked up is undefined.                                                  *)
(***************************************************************************)
\* history without the orchestrator's own log events
steps == SelectSeq(history, LAMBDA e : e.type # "LogEvent")

isProgress(e, engineName, percent) ==
    e.type = "EngineProgressEvent" /\ e.engineName = engineName /\ e.percentComplete = percent
isCalled(e, engineName) == e.type = "runRulesCalled" /\ e.engineName = engineName
isSettled(e, engineName) == e.type = "runRulesSettled" /\ e.engineName = engineName
isResults(e, engineName) == e.type = "EngineResultsEvent" /\ e.results.engineName = engineName
isFromEngine(e, engineName) ==
    /\ e.type \in {"EngineLogEvent", "EngineProgressEvent"}
    /\ e.engineName = engineName
    /\ e.type = "EngineProgressEvent" => e.percentComplete \notin {0, 100}

hashes(str) == {k \in 1..Len(str) : str[k] = "#"}
filePart(str) ==
    IF hashes(str) = {} THEN str
    ELSE SubSeq(str, 1, (CHOOSE k \in hashes(str) : \A j \in hashes(str) : k <= j) - 1)
methodPart(str) ==
    SubSeq(str, (CHOOSE k \in hashes(str) : \A j \in hashes(str) : k <= j) + 1, Len(str))

\* What stands between the semicolons of a method part, empty stretches left out
namedMethods(str) ==
    LET bounds == {0, Len(str) + 1} \cup {k \in 1..Len(str) : str[k] = ";"}
    IN  {SubSeq(str, bc[1] + 1, bc[2] - 1) :
            bc \in {c \in bounds \X bounds :
                      c[1] + 1 < c[2] /\ \A k \in bounds : ~(c[1] < k /\ k < c[2])}}

isMalformed(str) ==
    \/ Cardinality(hashes(str)) > 1
    \/ /\ Cardinality(hashes(str)) = 1
       /\ \E name \in namedMethods(methodPart(str)) :
             \/ name[1] \notin Letters
             \/ \E k \in 2..Len(name) : name[k] \notin Letters \cup Digits \cup {"_"}

\* A file lies in the workspace: it is one of its entries or beneath one
inWorkspace(file, workspaceFiles) ==
    \E w \in 1..Len(workspaceFiles) :
        \/ toAbsolutePath(workspaceFiles[w]) = file
        \/ isDescendant(file, toAbsolutePath(workspaceFiles[w]))

hasInputError(options) ==
    LET points == IF isDefined(options.pathStartPoints) THEN valueOf(options.pathStartPoints)
                  ELSE <<>>
    IN  \/ Len(options.workspaceFiles) = 0
        \/ \E w \in 1..Len(options.workspaceFiles) :
              toAbsolutePath(options.workspaceFiles[w]) \notin Files \cup Folders
        \/ \E q \in 1..Len(points) :
              \/ toAbsolutePath(filePart(points[q])) \notin Files \cup Folders
              \/ isMalformed(points[q])
              \/ ~inWorkspace(toAbsolutePath(filePart(points[q])), options.workspaceFiles)

C8_InputErrorsFailBeforeAnythingRuns ==
    (isDefined(runOptions) /\ hasInputError(valueOf(runOptions))) =>
        /\ pc = "failed"
        /\ isDefined(call.error)
        /\ \A i \in 1..Len(history) :
              history[i].type \notin {"runRulesCalled", "EngineProgressEvent", "EngineResultsEvent"}

(***************************************************************************)
(* C9.  Every violation in a RunResults that run returns, an engine's or a  *)
(* synthetic one, has a code location, and its primaryLocationIndex is an   *)
(* integer with 0 <= index < codeLocations.length; a violation that an      *)
(* engine returns with an index equal to codeLocations.length, or negative, *)
(* or not an integer, makes run fail with the bounds error that names the   *)
(* engine, the rule, the index and the length.                              *)
(***************************************************************************)
returnedViolationsInBounds ==
    pc = "returned" =>
        \A k \in 1..Len(runResults) :
            LET violations == getViolations(runResults[k], valueOf(selection))
            IN  \A j \in 1..Len(violations) :
                    /\ Len(violations[j].codeLocations) > 0
                    /\ indexInRange(violations[j])

boundsError(engineName, violation) ==
    getMessage("EngineReturnedViolationWithInvalidPrimaryLocationIndex",
               <<engineName, violation.ruleName, violation.primaryLocationIndex,
                 Len(violation.codeLocations) * Halves>>)

\* The statement as it is made: whatever else is wrong with the result
C9_IndexOutOfBoundsRaisesBoundsError ==
    /\ returnedViolationsInBounds
    /\ \A i \in 1..Len(history) :
          engineReturned(i) =>
             \A j \in 1..Len(history[i].settled.value.violations) :
                LET v == history[i].settled.value.violations[j]
                IN  ~indexInRange(v) =>
                       /\ pc = "failed"
                       /\ call.error = Defined(boundsError(history[i].engineName, v))

\* The statement that holds: run fails, and with the bounds error when the rule of
\* the violation is selected for the engine and every violation before it in the
\* engine's result is valid
C9_IndexOutOfBoundsFailsRun ==
    /\ returnedViolationsInBounds
    /\ \A i \in 1..Len(history) :
          engineReturned(i) =>
             \A j \in 1..Len(history[i].settled.value.violations) :
                LET v == history[i].settled.value.violations[j]
                IN  ~indexInRange(v) =>
                       /\ pc = "failed"
                       /\ isDefined(call.error)
                       /\ (/\ v.ruleName \in selectedRuleNames(history[i].engineName)
                           /\ \A b \in 1..(j-1) :
                                 passesValidation(history[i].settled.value.violations[b],
                                                  history[i].engineName))
                          => call.error = Defined(boundsError(history[i].engineName, v))

\* run failed with the bounds error on the second violation of an engine's result,
\* whose index equals the number of its code locations
C9_Witness ==
    /\ pc = "failed"
    /\ Len(history) > 0
    /\ engineReturned(Len(history))
    /\ Len(history[Len(history)].settled.value.violations) = 2
    /\ LET v == history[Len(history)].settled.value.violations[2]
       IN  /\ v.primaryLocationIndex = Len(v.codeLocations) * Halves
           /\ call.error = Defined(boundsError(history[Len(history)].engineName, v))

(***************************************************************************)
(* C10.  removeRedundantPaths returns, for every list of absolute paths, a  *)
(* list that (a) has no duplicates, (b) has no path that is a descendant of *)
(* another returned path, (c) covers every input path (each input equals a  *)
(* returned path or lies beneath one), (d) is a subset of the inputs and    *)
(* (e) is sorted lexicographically.                                         *)
(***************************************************************************)
C10_NormalizedWorkspace ==
    isDefined(filteredPaths) =>
        LET returned == valueOf(filteredPaths)
        IN  /\ \A i, j \in 1..Len(returned) : i # j => returned[i] # returned[j]
            /\ \A i, j \in 1..Len(returned) : ~isDescendant(returned[i], returned[j])
            /\ \A k \in 1..Len(absolutePaths) : \E i \in 1..Len(returned) :
                   returned[i] = absolutePaths[k] \/ isDescendant(absolutePaths[k], returned[i])
            /\ Range(returned) \subseteq Range(absolutePaths)
            /\ \A i, j \in 1..Len(returned) : i < j => ~stringLess(returned[j], returned[i])

(***************************************************************************)
(* C11.  Whenever run comes to call an engine, every path start point it    *)
(* passes to the engines has a file that lies under one of the normalized   *)
(* workspace paths: it is a workspace path, or it is located inside a       *)
(* workspace directory.  A start point whose file is in no workspace path,  *)
(* a file of a sibling directory whose name begins with the name of a       *)
(* workspace directory included, makes run fail before any engine runs.    *)
(***************************************************************************)
\* A file lies under one of the paths: it is one of them or inside one that is a folder
liesUnder(file, paths) ==
    \E w \in 1..Len(paths) :
        \/ paths[w] = file
        \/ (paths[w] \in Folders /\ isDescendant(file, paths[w]))

anEngineWasCalled == \E i \in 1..Len(history) : history[i].type = "runRulesCalled"

C11_StartPointsLieInsideWorkspace ==
    (/\ anEngineWasCalled
     /\ isDefined(engineRunOptions)
     /\ isDefined(valueOf(engineRunOptions).pathStartPoints)) =>
        \A q \in 1..Len(valueOf(valueOf(engineRunOptions).pathStartPoints)) :
            liesUnder(valueOf(valueOf(engineRunOptions).pathStartPoints)[q].file,
                      valueOf(engineRunOptions).workspaceFiles)

(***************************************************************************)
(* C12.  Path start point parsing: a string with no '#' yields one record   *)
(* {file}; a string '<file>#<m1>;<m2>;...' yields one record {file,         *)
(* methodName} per method name, in order, all with the same file; trailing  *)
(* whitespace and trailing semicolons after the last method name are        *)
(* trimmed before splitting; a string with more than one '#', or with a     *)
(* method name that does not match ^[A-Za-z][A-Za-z0-9_]*$, is rejected     *)
(* with the invalid-start-point error.                                      *)
(***************************************************************************)
\* str without the white space and the semicolons it ends with
withoutTrailing(str) ==
    LET kept == {k \in 0..Len(str) : \A j \in (k+1)..Len(str) : str[j] \in {" ", ";"}}
    IN  SubSeq(str, 1, CHOOSE k \in kept : \A j \in kept : k <= j)

\* What stands between the separators of str, in order, empty stretches included
fields(str, sep) ==
    LET bounds == {0, Len(str) + 1} \cup {k \in 1..Len(str) : str[k] = sep}
        cuts   == {bc \in bounds \X bounds :
                     bc[1] < bc[2] /\ \A k \in bounds : ~(bc[1] < k /\ k < bc[2])}
    IN  [n \in 1..Cardinality(cuts) |->
            LET bc == CHOOSE c \in cuts : Cardinality({d \in cuts : d[1] < c[1]}) = n - 1
            IN  SubSeq(str, bc[1] + 1, bc[2] - 1)]

matchesMethodNamePattern(name) ==
    /\ name # <<>>
    /\ name[1] \in Letters
    /\ \A k \in 2..Len(name) : name[k] \in Letters \cup Digits \cup {"_"}

invalidStartPointError(str) == Defined(getMessage("InvalidPathStartPoint", <<str>>))

C12_StartPointParsing ==
    isDefined(startPointRecords) =>
        LET str     == startPointStr
            outcome == valueOf(startPointRecords)
            names   == fields(withoutTrailing(methodPart(str)), ";")
        IN  /\ (hashes(str) = {} /\ str \in Files \cup Folders) =>
                  outcome = Returns(<<[file |-> str, methodName |-> Undefined]>>)
            /\ Cardinality(hashes(str)) > 1 => outcome.error = invalidStartPointError(str)
            /\ (Cardinality(hashes(str)) = 1 /\ filePart(str) \in Files) =>
                  IF \A n \in 1..Len(names) : matchesMethodNamePattern(names[n])
                  THEN outcome = Returns([n \in 1..Len(names) |->
                                    [file |-> filePart(str), methodName |-> Defined(names[n])]])
                  ELSE outcome.error = invalidStartPointError(str)

(***************************************************************************)
(* C13.  If an engine's describeRules returns two rule descriptions with    *)
(* the same name, addEnginePlugin fails with the error that names the       *)
(* engine and the repeated rule, and none of that engine's rules are added  *)
(* to the rule catalog.                                                     *)
(***************************************************************************)
\* The names an engine describes more than once
namesDescribedTwice(engine) ==
    {engine.describeRules[a].name : a \in {c \in 1..Len(engine.describeRules) :
        \E b \in 1..Len(engine.describeRules) :
            b # c /\ engine.describeRules[b].name = engine.describeRules[c].name}}

\* The call comes to describe the rules of the i-th engine of the plugin: the plugin
\* listed its names, created the engines up to the i-th, and the engines before the
\* i-th described their rules without a repeated name
describesEngine(plugin, i) ==
    /\ ~plugin.namesThrow
    /\ \A j \in 1..i : isDefined(plugin.createEngine[j])
    /\ \A j \in 1..i : ~valueOf(plugin.createEngine[j]).describeThrows
    /\ \A j \in 1..(i-1) : namesDescribedTwice(valueOf(plugin.createEngine[j])) = {}

C13_RepeatedRuleNameFailsAdd ==
    [][ isAddStep =>
          LET plugin == valueOf(call'.plugin)
              names  == plugin.getAvailableEngineNames
          IN  \A i \in 1..Len(names) :
                 (describesEngine(plugin, i)
                    /\ namesDescribedTwice(valueOf(plugin.createEngine[i])) # {}) =>
                    /\ \E name \in namesDescribedTwice(valueOf(plugin.createEngine[i])) :
                          call'.error = Defined(getMessage("EngineReturnedMultipleRulesWithSameName",
                                                           <<names[i], name>>))
                    /\ \A k \in (Len(allRules) + 1)..Len(allRules') :
                          allRules'[k].engineName # names[i] ]_vars

\* An addEnginePlugin call has failed over the repeated rule name of its engine
C13_Witness ==
    /\ call.op = "addEnginePlugin"
    /\ call.error = Defined(getMessage("EngineReturnedMultipleRulesWithSameName",
                                       <<repeatedRuleNameEngine, repeatedRule>>))
    /\ \A k \in 1..Len(allRules) : allRules[k].engineName # repeatedRuleNameEngine

(***************************************************************************)
(* C14.  Every exception that a plugin's getAvailableEngineNames or         *)
(* createEngine throws during addEnginePlugin, whatever API version the     *)
(* plugin declares, reaches the caller as a plugin-failure error that       *)
(* tells which plugin call failed (and, for createEngine, the engine        *)
(* name), never as the plugin's own exception.                              *)
(***************************************************************************)
\* The call comes to create the i-th engine of the plugin
createsEngine(plugin, i) ==
    /\ ~plugin.namesThrow
    /\ \A j \in 1..(i-1) :
          /\ isDefined(plugin.createEngine[j])
          /\ ~valueOf(plugin.createEngine[j]).describeThrows
          /\ namesDescribedTwice(valueOf(plugin.createEngine[j])) = {}

C14_PluginExceptionsAreWrapped ==
    [][ isAddStep =>
          LET plugin == valueOf(call'.plugin)
              names  == plugin.getAvailableEngineNames
          IN  /\ plugin.namesThrow =>
                    call'.error = Defined(getMessage("PluginErrorFromGetAvailableEngineNames", <<>>))
              /\ \A i \in 1..Len(names) :
                    (createsEngine(plugin, i) /\ ~isDefined(plugin.createEngine[i])) =>
                       call'.error = Defined(getMessage("PluginErrorFromCreateEngine", <<names[i]>>)) ]_vars

(***************************************************************************)
(* C15.  When a plugin declares an API version greater than the host's      *)
(* ENGINE_API_VERSION, addEnginePlugin emits exactly one Warn LogEvent      *)
(* that names the plugin's engines, before any engine is processed, and     *)
(* then registers the plugin's engines exactly as it would for a plugin of  *)
(* the current version; a plugin whose version is not greater emits no      *)
(* Warn event.  (The plugin lists its engine names: a plugin whose listing  *)
(* throws has no engines to name.)                                          *)
(***************************************************************************)
warnEvents(events) == SelectSeq(events, LAMBDA e : e.type = "LogEvent" /\ e.logLevel = LogLevelWarn)

\* What the call would have done for the same plugin at the host's version
atCurrentVersion(plugin) ==
    addEnginePlugin([engines |-> engines, allRules |-> allRules, emitted |-> <<>>,
                     error |-> Undefined],
                    config, [plugin EXCEPT !.getApiVersion = ENGINE_API_VERSION])

C15_FuturePluginWarnsOnceThenRegisters ==
    [][ (isAddStep /\ ~valueOf(call'.plugin).namesThrow) =>
          LET plugin == valueOf(call'.plugin)
          IN  IF plugin.getApiVersion > ENGINE_API_VERSION
              THEN /\ Len(warnEvents(emitted')) = 1
                   /\ emitted'[1] = LogEvent(LogLevelWarn, getMessage("EngineFromFutureApiDetected",
                          <<plugin.getApiVersion, plugin.getAvailableEngineNames, ENGINE_API_VERSION>>))
                   /\ engines' = atCurrentVersion(plugin).engines
                   /\ allRules' = atCurrentVersion(plugin).allRules
                   /\ call'.error = atCurrentVersion(plugin).error
                   /\ Tail(emitted') = atCurrentVersion(plugin).emitted
              ELSE Len(warnEvents(emitted')) = 0 ]_vars

\* A plugin of a future version was added, with its warning, and its two engines
\* are registered
C15_Witness ==
    /\ call.op = "addEnginePlugin"
    /\ valueOf(call.plugin).getApiVersion > ENGINE_API_VERSION
    /\ Len(warnEvents(emitted)) = 1
    /\ Len(engines) = 2
    /\ Len(allRules) > 0

(***************************************************************************)
(* C16.  Rule overrides are applied once, at ingestion, and replace         *)
(* wholesale: for every rule with a configured override the cataloged       *)
(* rule's severity is the override's severity when one is given and its     *)
(* tags are exactly the override's tags when given (not merged with the     *)
(* engine's tags, an empty list included); all other fields are those of    *)
(* the engine's description; rules without an override are unchanged; the   *)
(* catalog entries do not change afterwards; and selectRules matches        *)
(* against the overridden severity and tags.                                *)
(***************************************************************************)
\* The overrides configured for a rule of an engine
overridesFor(engineName, ruleName) ==
    {o.override : o \in {c \in config.rules : c.engineName = engineName /\ c.ruleName = ruleName}}

\* The description the engine advertised under engineName gave of a rule
describedBy(plugin, engineName, ruleName) ==
    UNION { {description \in Range(valueOf(plugin.createEngine[i]).describeRules) :
                description.name = ruleName} :
            i \in {j \in 1..Len(plugin.getAvailableEngineNames) :
                     /\ plugin.getAvailableEngineNames[j] = engineName
                     /\ isDefined(plugin.createEngine[j])} }

\* The cataloged rule is the engine's description with the overrides replacing
\* what they name
overridden(rule, description) ==
    LET overrides == overridesFor(rule.engineName, rule.ruleDesc.name)
    IN  /\ rule.ruleDesc.name = description.name
        /\ rule.ruleDesc.type = description.type
        /\ rule.ruleDesc.resourceUrls = description.resourceUrls
        /\ \A o \in overrides :
              /\ isDefined(o.severity) => rule.ruleDesc.severityLevel = valueOf(o.severity)
              /\ isDefined(o.tags) => rule.ruleDesc.tags = valueOf(o.tags)
        /\ (\A o \in overrides : ~isDefined(o.severity))
              => rule.ruleDesc.severityLevel = description.severityLevel
        /\ (\A o \in overrides : ~isDefined(o.tags))
              => rule.ruleDesc.tags = description.tags

C16_OverridesReplaceAtIngestion ==
    [][ /\ Len(allRules') >= Len(allRules)
        /\ SubSeq(allRules', 1, Len(allRules)) = allRules
        /\ isAddStep =>
              \A k \in (Len(allRules) + 1)..Len(allRules') :
                 \E description \in describedBy(valueOf(call'.plugin), allRules'[k].engineName,
                                                allRules'[k].ruleDesc.name) :
                    overridden(allRules'[k], description)
        /\ isSelectStep =>
              LET sels == IF valueOf(selectors') = <<>> THEN <<Recommended>> ELSE valueOf(selectors')
              IN  rulesOf(valueOf(selection')) =
                     {rule \in Range(allRules) :
                         \E s \in 1..Len(sels) : selectorMatches(sels[s], rule)} ]_vars

\* The catalog holds a rule whose tags an override replaced with the empty list
\* and whose severity it replaced as well, and a selection by the new severity
\* holds that rule
C16_Witness ==
    /\ \E k \in 1..Len(allRules) :
          /\ allRules[k].ruleDesc.name = stub1RuleA
          /\ allRules[k].ruleDesc.tags = <<>>
          /\ allRules[k].ruleDesc.severityLevel = Info
          /\ isDefined(selection)
          /\ allRules[k] \in rulesOf(valueOf(selection))
    /\ selectors = Defined(<< <<"5">> >>)

(***************************************************************************)
(* C17.  For every catalog, selectRules() with no selectors returns the     *)
(* same selection as selectRules('Recommended').                            *)
(***************************************************************************)
C17_NoSelectorsMeansRecommended ==
    [][ (isSelectStep /\ valueOf(selectors') = <<>>) =>
          /\ valueOf(selection') = selectRules(allRules, << <<"R","e","c","o","m","m","e","n","d","e","d">> >>)
          /\ rulesOf(valueOf(selection')) =
                {rule \in Range(allRules) :
                    \E tag \in Range(rule.ruleDesc.tags) \cup {rule.engineName, rule.ruleDesc.name} :
                        equalIgnoringCase(tag, <<"R","e","c","o","m","m","e","n","d","e","d">>)} ]_vars

\* selectRules() was called on a catalog that holds Recommended rules and a rule
\* that is not Recommended
C17_Witness ==
    /\ selectors = Defined(<<>>)
    /\ isDefined(selection)
    /\ rulesOf(valueOf(selection)) # {}
    /\ \E k \in 1..Len(allRules) : allRules[k] \notin rulesOf(valueOf(selection))

(***************************************************************************)
(* C18.  Selection is case-insensitive: for every catalog and every         *)
(* selector list, changing the letter case of any selector (or of the       *)
(* engine names, rule names and tags of the catalog) does not change which  *)
(* rules are selected; selectRules('HIGH') equals selectRules('high').      *)
(***************************************************************************)
\* A string with its letters in the other case, in upper case, and in lower case
flipped(c) ==
    IF \E k \in 1..Len(UpperCaseLetters) : UpperCaseLetters[k] = c
    THEN LowerCaseLetters[CHOOSE k \in 1..Len(UpperCaseLetters) : UpperCaseLetters[k] = c]
    ELSE IF \E k \in 1..Len(LowerCaseLetters) : LowerCaseLetters[k] = c
    THEN UpperCaseLetters[CHOOSE k \in 1..Len(LowerCaseLetters) : LowerCaseLetters[k] = c]
    ELSE c
inOtherCase(str) == [k \in 1..Len(str) |-> flipped(str[k])]
inUpperCase(str) ==
    [k \in 1..Len(str) |-> IF str[k] \in Range(LowerCaseLetters) THEN flipped(str[k]) ELSE str[k]]
inLowerCase(str) ==
    [k \in 1..Len(str) |-> IF str[k] \in Range(UpperCaseLetters) THEN flipped(str[k]) ELSE str[k]]

\* A rule with its engine name, its name and its tags in the other case
ruleInOtherCase(rule) ==
    [rule EXCEPT !.engineName = inOtherCase(@),
                 !.ruleDesc = [@ EXCEPT !.name = inOtherCase(@),
                                        !.tags = [k \in 1..Len(@) |-> inOtherCase(@[k])]]]

\* The places of the catalog whose rules a selection holds
selectedPlaces(catalog, ruleMap) ==
    {k \in 1..Len(catalog) : catalog[k] \in rulesOf(ruleMap)}

C18_SelectionIgnoresCase ==
    [][ isSelectStep =>
          LET sels == valueOf(selectors')
          IN  /\ valueOf(selection') =
                    selectRules(allRules, [s \in 1..Len(sels) |-> inOtherCase(sels[s])])
              /\ valueOf(selection') =
                    selectRules(allRules, [s \in 1..Len(sels) |-> inUpperCase(sels[s])])
              /\ valueOf(selection') =
                    selectRules(allRules, [s \in 1..Len(sels) |-> inLowerCase(sels[s])])
              /\ LET catalog == [k \in 1..Len(allRules) |-> ruleInOtherCase(allRules[k])]
                 IN  selectedPlaces(catalog, selectRules(catalog, sels))
                        = selectedPlaces(allRules, valueOf(selection')) ]_vars

\* selectRules('HIGH') has selected a rule of severity High
C18_Witness ==
    /\ selectors = Defined(<< <<"H","I","G","H">> >>)
    /\ isDefined(selection)
    /\ \E rule \in rulesOf(valueOf(selection)) : rule.ruleDesc.severityLevel = High

(***************************************************************************)
(* C19.  Code location validation accepts a location exactly when:         *)
(* startLine and startColumn are integers >= 1; and, if endLine is         *)
(* present, endLine is an integer >= 1 with endLine >= startLine and, if   *)
(* endColumn is also present, endColumn is an integer >= 1 with            *)
(* endColumn >= startColumn whenever endLine = startLine.  An endColumn    *)
(* supplied without an endLine is never a validation error, whatever its   *)
(* value, and getEndColumn() reports it as absent in the results.          *)
(* (Stated of locations whose file is an existing file.)                   *)
(***************************************************************************)
\* The end of a code location is acceptable beside its start
acceptableEnd(codeLocation) ==
    isDefined(codeLocation.endLine) =>
        /\ wholeFrom(1, valueOf(codeLocation.endLine))
        /\ valueOf(codeLocation.endLine) >= codeLocation.startLine
        /\ isDefined(codeLocation.endColumn) =>
              /\ wholeFrom(1, valueOf(codeLocation.endColumn))
              /\ (valueOf(codeLocation.endLine) = codeLocation.startLine
                    => valueOf(codeLocation.endColumn) >= codeLocation.startColumn)

acceptableLocation(codeLocation) ==
    /\ wholeFrom(1, codeLocation.startLine)
    /\ wholeFrom(1, codeLocation.startColumn)
    /\ acceptableEnd(codeLocation)

\* An endColumn is supplied without an endLine
endColumnAlone(codeLocation) ==
    isDefined(codeLocation.endColumn) /\ ~isDefined(codeLocation.endLine)

C19_CodeLocationValidation ==
    (isDefined(locationOutcome) /\ namesFile(returnedLocation)) =>
        LET outcome == valueOf(locationOutcome)
        IN  /\ ~isDefined(outcome.error) <=> acceptableLocation(returnedLocation)
            /\ endColumnAlone(returnedLocation) =>
                  /\ outcome.codeLocation.endColumn = Undefined
                  /\ isDefined(outcome.error) =>
                        ~(wholeFrom(1, returnedLocation.startLine)
                            /\ wholeFrom(1, returnedLocation.startColumn))

\* A location with an invalid endColumn and no endLine was accepted and its end
\* column reported as absent
C19_Witness ==
    /\ isDefined(locationOutcome)
    /\ namesFile(returnedLocation)
    /\ endColumnAlone(returnedLocation)
    /\ ~wholeFrom(1, valueOf(returnedLocation.endColumn))
    /\ ~isDefined(valueOf(locationOutcome).error)
    /\ valueOf(locationOutcome).codeLocation.endColumn = Undefined

(***************************************************************************)
(* C20.  For a run that returns normally, the RunResults has exactly one    *)
(* entry per engine of the selection, keyed by engine name and listed in    *)
(* the selection's engine order; getViolationCount() is the sum of the      *)
(* per-engine violation counts and getViolations() is the concatenation of  *)
(* the per-engine violation lists in that order, each engine's violations   *)
(* being in the order the engine returned them and each bound to the        *)
(* selected Rule with that name.  (An engine that threw returned nothing:   *)
(* its list is the one violation of C5.)                                    *)
(***************************************************************************)
\* The violation list and count of the n-th entry of runResults
violationsOfEntry(n) == getViolations(runResults[n], valueOf(selection))
countOfEntry(n) == getViolationCount(runResults[n])

\* One place for each violation of each entry, and the places before entry n
violationPlaces == UNION {{n} \X (1..Len(violationsOfEntry(n))) : n \in 1..Len(runResults)}
placesBefore(n) == {place \in violationPlaces : place[1] < n}

\* What the call of runRules for an engine settled with
settledOf(engineName) ==
    history[CHOOSE i \in 1..Len(history) :
               history[i].type = "runRulesSettled" /\ history[i].engineName = engineName].settled

\* The rule of the selection that has that engine and name
selectedRule(engineName, ruleName) ==
    CHOOSE rule \in rulesOf(valueOf(selection)) :
        rule.engineName = engineName /\ rule.ruleDesc.name = ruleName

C20_RunResultsAggregate ==
    pc = "returned" =>
        /\ getResultsEngineNames(runResults) = selectedEngines
        /\ \A m, n \in 1..Len(runResults) :
              m # n => runResults[m].engineName # runResults[n].engineName
        /\ getTotalViolationCount(runResults) =
              Cardinality(UNION {{n} \X (1..countOfEntry(n)) : n \in 1..Len(runResults)})
        /\ LET all == getAllViolations(runResults, valueOf(selection))
           IN  /\ Len(all) = Cardinality(violationPlaces)
               /\ \A place \in violationPlaces :
                     all[Cardinality(placesBefore(place[1])) + place[2]]
                        = violationsOfEntry(place[1])[place[2]]
        /\ \A n \in 1..Len(runResults) :
              LET settled == settledOf(runResults[n].engineName)
              IN  ~isDefined(settled.error) =>
                    /\ Len(violationsOfEntry(n)) = Len(settled.value.violations)
                    /\ countOfEntry(n) = Len(settled.value.violations)
                    /\ \A i \in 1..Len(settled.value.violations) :
                          /\ violationsOfEntry(n)[i].rule \in rulesOf(valueOf(selection))
                          /\ violationsOfEntry(n)[i] =
                                ViolationImpl(settled.value.violations[i],
                                              selectedRule(runResults[n].engineName,
                                                           settled.value.violations[i].ruleName))

\* run returned the results of two engines: two violations of different rules from
\* the first, in the order it returned them, and a violation from the second
C20_Witness ==
    /\ pc = "returned"
    /\ Len(runResults) = 2
    /\ ~isDefined(runResults[1].error)
    /\ Len(violationsOfEntry(1)) = 2
    /\ violationsOfEntry(1)[1].rule # violationsOfEntry(1)[2].rule
    /\ violationsOfEntry(1)[1].message = "n"
    /\ Len(violationsOfEntry(2)) = 1
    /\ Len(getAllViolations(runResults, valueOf(selection))) = 3

(***************************************************************************)
(* C21.  An engine for which the selection holds no rule is never invoked   *)
(* by run and has no entry in the RunResults: its runRules is not called,   *)
(* getEngineNames() of the results omits it and getEngineRunResults(name)   *)
(* throws for it; with an empty selection no engine is invoked and the      *)
(* results hold no violation and no engine.  Every engine that is invoked   *)
(* receives exactly the names of the rules selected for it, in selection    *)
(* order, and the normalized run options.                                   *)
(***************************************************************************)
\* The engine names that occur anywhere: registered, in the catalog, in the selection
knownEngineNames ==
    Range(registeredEngineNames(engines)) \cup {rule.engineName : rule \in Range(allRules)}
        \cup {rule.engineName : rule \in rulesOf(valueOf(selection))}

\* The names of the rules that the selection lists for an engine, in its order
namesSelectedFor(engineName) ==
    LET ruleMap == valueOf(selection)
        entry   == CHOOSE k \in 1..Len(ruleMap) : ruleMap[k].engineName = engineName
    IN  [j \in 1..Len(ruleMap[entry].rules) |-> ruleMap[entry].rules[j].ruleDesc.name]

wasCalled(engineName) ==
    \E i \in 1..Len(history) :
        history[i].type = "runRulesCalled" /\ history[i].engineName = engineName

C21_UnselectedEnginesAreSkipped ==
    pc # "idle" =>
        LET selected == rulesOf(valueOf(selection))
            calls == {i \in 1..Len(history) : history[i].type = "runRulesCalled"}
            normalized == extractEngineRunOptions(valueOf(runOptions))
        IN  /\ \A engineName \in knownEngineNames :
                  (\A rule \in selected : rule.engineName # engineName) =>
                     /\ selectedRuleNames(engineName) = {}
                     /\ \A i \in calls : history[i].engineName # engineName
                     /\ ~wasCalled(engineName)
                     /\ engineName \notin Range(getResultsEngineNames(runResults))
                     /\ isDefined(getEngineRunResults(runResults, engineName).error)
            /\ selected = {} =>
                  /\ calls = {}
                  /\ getResultsEngineNames(runResults) = <<>>
                  /\ getTotalViolationCount(runResults) = 0
                  /\ getAllViolations(runResults, valueOf(selection)) = <<>>
            /\ \A i \in calls :
                  /\ history[i].ruleNames = namesSelectedFor(history[i].engineName)
                  /\ history[i].ruleNames # <<>>
                  /\ Returns(history[i].runOptions) = normalized

\* run returned the results of one engine, called with the one rule selected for it,
\* while another registered engine had no rule in the selection
C21_Witness ==
    /\ pc = "returned"
    /\ Len(runResults) = 1
    /\ \E engineName \in Range(registeredEngineNames(engines)) :
          /\ selectedRuleNames(engineName) = {}
          /\ isDefined(getEngineRunResults(runResults, engineName).error)
    /\ \E i \in 1..Len(history) :
          /\ history[i].type = "runRulesCalled"
          /\ history[i].registered
          /\ Len(history[i].ruleNames) = 1

(***************************************************************************)
(* C22.  For every violation in the results, getResourceUrls() is the      *)
(* rule's resource urls in their order followed by the violation-supplied  *)
(* urls that are not already present (compared case-sensitively), in their *)
(* original order; a url already present is not added a second time, and a *)
(* violation with no urls yields exactly the rule's urls.                  *)
(***************************************************************************)
\* The urls of the rule and those the violation supplies (none when it has no list)
ruleUrlsOf(reported) == reported.rule.ruleDesc.resourceUrls
suppliedUrlsOf(reported) ==
    IF isDefined(reported.apiViolation.resourceUrls)
    THEN valueOf(reported.apiViolation.resourceUrls) ELSE <<>>

\* The urls of a list that occur neither in base nor earlier in the list, in order
RECURSIVE notYetPresent(_, _)
notYetPresent(base, urls) ==
    IF urls = <<>> THEN <<>>
    ELSE IF Head(urls) \in Range(base) THEN notYetPresent(base, Tail(urls))
    ELSE <<Head(urls)>> \o notYetPresent(Append(base, Head(urls)), Tail(urls))

\* The urls of a list that do not occur in base, in order
RECURSIVE notAmong(_, _)
notAmong(base, urls) ==
    IF urls = <<>> THEN <<>>
    ELSE IF Head(urls) \in Range(base) THEN notAmong(base, Tail(urls))
    ELSE <<Head(urls)>> \o notAmong(base, Tail(urls))

\* As stated: no url is added that is present already, in the rule's urls or among
\* those added before it
C22_UrlsAddedOnce ==
    isDefined(reportedUrls) =>
        LET reported == valueOf(reportedViolation)
        IN  /\ valueOf(reportedUrls) =
                  ruleUrlsOf(reported) \o notYetPresent(ruleUrlsOf(reported), suppliedUrlsOf(reported))
            /\ suppliedUrlsOf(reported) = <<>> => valueOf(reportedUrls) = ruleUrlsOf(reported)

\* Amended: "already present" means among the rule's urls; a url the rule lacks is
\* added as many times as the violation supplies it
C22_UrlsOfRuleNotRepeated ==
    isDefined(reportedUrls) =>
        LET reported == valueOf(reportedViolation)
        IN  /\ valueOf(reportedUrls) =
                  ruleUrlsOf(reported) \o notAmong(ruleUrlsOf(reported), suppliedUrlsOf(reported))
            /\ suppliedUrlsOf(reported) = <<>> => valueOf(reportedUrls) = ruleUrlsOf(reported)

\* A violation supplied a url of the rule, the same url in the other case and a new
\* one: the first was left out, the others added in their order
C22_Witness ==
    /\ isDefined(reportedUrls)
    /\ ruleUrlsOf(valueOf(reportedViolation)) = << <<"u">> >>
    /\ suppliedUrlsOf(valueOf(reportedViolation)) \in
          { << <<"u">>, <<"U">> >>, << <<"U">>, <<"u">> >> }
    /\ valueOf(reportedUrls) = << <<"u">>, <<"U">> >>

(***************************************************************************)
(* C25.  A RuleSelection and a RunResults are independent snapshots once    *)
(* returned: after selectRules returns a selection, later addEnginePlugin   *)
(* calls (with or without overrides) do not change the engines, rules, rule *)
(* severities or tags the selection reports; and after run returns a        *)
(* RunResults, later run calls on the same CodeAnalyzer do not change the   *)
(* engines and violations it reports.  (Stated of the selection: an         *)
(* addEnginePlugin call leaves what a selection taken before it reports as  *)
(* it was.)                                                                 *)
(***************************************************************************)
\* What a selection reports: its engines in order and, for each, the engine, name,
\* severity and tags of its rules in order
reportOf(ruleMap) ==
    [i \in 1..Len(ruleMap) |->
        [engineName |-> ruleMap[i].engineName,
         rules |-> [j \in 1..Len(ruleMap[i].rules) |->
                      [engineName |-> ruleMap[i].rules[j].engineName,
                       name |-> ruleMap[i].rules[j].ruleDesc.name,
                       severityLevel |-> ruleMap[i].rules[j].ruleDesc.severityLevel,
                       tags |-> ruleMap[i].rules[j].ruleDesc.tags]]]]

C25_SelectionIsASnapshot ==
    [][ (isAddStep /\ isDefined(selection)) =>
            /\ isDefined(selection')
            /\ reportOf(valueOf(selection')) = reportOf(valueOf(selection)) ]_vars

(***************************************************************************)
(* C26.  After any sequence of addEnginePlugin calls, every rule in the     *)
(* catalog belongs to a registered engine: each engine name reported by any *)
(* RuleSelection's getEngineNames() is in CodeAnalyzer.getEngineNames(), so *)
(* the engine lookup performed by run never yields an undefined engine.     *)
(***************************************************************************)
C26_CatalogEnginesAreRegistered ==
    /\ \A k \in 1..Len(allRules) : enginesHas(engines, allRules[k].engineName)
    /\ isDefined(selection) =>
          \A i \in 1..Len(getEngineNames(valueOf(selection))) :
             /\ includes(registeredEngineNames(engines),
                         getEngineNames(valueOf(selection))[i])
             /\ isDefined(getEngine(engines, getEngineNames(valueOf(selection))[i]))

(***************************************************************************)
(* C27.  If addEnginePlugin throws (a plugin method throws while listing or *)
(* creating engines, describeRules throws, or an engine returns duplicate   *)
(* rule names), the set of registered engines and the rule catalog are the  *)
(* same as before the call: no engine of the failing plugin remains         *)
(* registered and no rule of it remains selectable.                         *)
(***************************************************************************)
C27_ThrowingAddChangesNothing ==
    [][ (isAddStep /\ isDefined(call'.error)) =>
            /\ registeredEngineNames(engines') = registeredEngineNames(engines)
            /\ engines' = engines
            /\ allRules' = allRules ]_vars

(***************************************************************************)
(* C28.  An EngineResultsEvent is emitted for an engine only after that     *)
(* engine's result has passed validation (or has been replaced by the       *)
(* synthetic error result) and has been added to the aggregate RunResults;  *)
(* when validation of an engine's result fails, the orchestrator has        *)
(* emitted EngineProgressEvent(0) for that engine but emits neither its     *)
(* EngineProgressEvent(100) nor an EngineResultsEvent for it, and emits no  *)
(* event for any later engine.                                              *)
(***************************************************************************)
\* The event or mark e is about the engine called engineName
concerns(e, engineName) ==
    IF e.type = "EngineResultsEvent" THEN e.results.engineName = engineName
    ELSE e.engineName = engineName

\* What run makes of the settled call of runRules whose mark is e, where it accepts it
acceptedResultsOf(e) ==
    IF isDefined(e.settled.error)
    THEN Defined(UnexpectedErrorEngineRunResults(e.engineName, valueOf(e.settled.error)))
    ELSE IF isDefined(validateEngineRunResults(e.engineName, e.settled.value,
                                               valueOf(selection)))
         THEN Undefined
         ELSE Defined(EngineRunResultsImpl(e.engineName, e.settled.value))

validationFailed ==
    /\ pc = "failed"
    /\ Len(history) > 0
    /\ history[Len(history)].type = "runRulesSettled"

severitiesOfEntry(n) ==
    LET violations == violationsOfEntry(n)
    IN  [i \in 1..Len(violations) |-> getSeverityLevel(violations[i].rule)]

severityCountOfEntry(n, severity) ==
    getViolationCountOfSeverity(runResults[n], valueOf(selection), severity)

C29_SeverityCountsAddUp ==
    isDefined(selection) =>
        LET entries == 1..Len(runResults)
            severities == [n \in entries |-> severitiesOfEntry(n)]
            count == [n \in entries |->
                        [severity \in SeverityLevels |-> severityCountOfEntry(n, severity)]]
            total == [severity \in SeverityLevels |->
                        getTotalViolationCountOfSeverity(runResults, valueOf(selection),
                                                         severity)]
            places(n, severity) ==
                {i \in 1..Len(severities[n]) : severities[n][i] = severity}
        IN  /\ \A n \in entries :
                  /\ count[n][Critical] + count[n][High] + count[n][Moderate]
                        + count[n][Low] + count[n][Info] = countOfEntry(n)
                  /\ \A severity \in SeverityLevels :
                        count[n][severity] = Cardinality(places(n, severity))
            /\ total[Critical] + total[High] + total[Moderate] + total[Low] + total[Info]
                  = getTotalViolationCount(runResults)
            /\ \A severity \in SeverityLevels :
                  total[severity] =
                     Cardinality(UNION {{n} \X places(n, severity) : n \in entries})

\* run returned the results of two engines: the synthetic error results of one and,
\* of the other, two violations of rules of two severities
C29_Witness ==
    /\ pc = "returned"
    /\ Len(runResults) = 2
    /\ \E m, n \in 1..2 :
          /\ isDefined(runResults[m].error)
          /\ ~isDefined(runResults[n].error)
          /\ countOfEntry(n) = 2
          /\ \E s, t \in SeverityLevels :
                s # t /\ severityCountOfEntry(n, s) = 1 /\ severityCountOfEntry(n, t) = 1
          /\ getTotalViolationCountOfSeverity(runResults, valueOf(selection), Critical) >= 1
    /\ getTotalViolationCount(runResults) = 3

(***************************************************************************)
(* C23.  Event delivery by the orchestrator is synchronous, per event kind, *)
(* in registration order and without replay: when an event is emitted,      *)
(* every callback registered for that event's kind before the emission is   *)
(* called exactly once, in the order the callbacks were registered, before  *)
(* the emitting operation continues; callbacks registered for other kinds   *)
(* are not called, and a callback registered after an emission never        *)
(* receives that earlier event.                                             *)
(***************************************************************************)
\* The callbacks that were registered for the kind of the k-th emission before it
registeredFor(k) ==
    {c \in 1..published[k].registered :
        listeners[c].eventType = published[k].event.type}

\* The calls that deliver the k-th emission
callsOf(k) == {i \in 1..Len(received) : received[i].emission = k}

C23_DeliveryInRegistrationOrder ==
    /\ \A i \in 1..Len(received) : received[i].emission \in 1..Len(published)
    /\ \A k \in 1..Len(published) :
          /\ \A c \in registeredFor(k) :
                Cardinality({i \in callsOf(k) : received[i].callback = c}) = 1
          /\ \A i \in callsOf(k) :
                /\ received[i].callback \in registeredFor(k)
                /\ received[i].event = published[k].event
          /\ \A i, j \in callsOf(k) :
                (i < j) => received[i].callback < received[j].callback
    /\ \A i, j \in 1..Len(received) :
          (i < j) => received[i].emission <= received[j].emission

\* Two callbacks are registered for log events, the second of them after an emission
\* that the first received; a later emission reached both, and an engine's event was
\* emitted again, for which no callback is registered
C23_Witness ==
    /\ Len(listeners) = 2
    /\ listeners[1].eventType = "LogEvent"
    /\ listeners[2].eventType = "LogEvent"
    /\ \E j, k \in 1..Len(published) :
          /\ published[j].registered = 1
          /\ published[j].event.type = "LogEvent"
          /\ callsOf(j) # {}
          /\ published[k].event.type = "LogEvent"
          /\ Cardinality(callsOf(k)) = 2
    /\ \E k \in 1..Len(published) :
          published[k].event.type = "EngineLogEvent" /\ callsOf(k) = {}

(***************************************************************************)
(* C24.  Each log or progress event emitted by a registered engine is       *)
(* re-emitted by the orchestrator exactly once, as an EngineLogEvent or     *)
(* EngineProgressEvent carrying that engine's registered name, the original *)
(* logLevel/message or percentComplete, and a timestamp taken from the      *)
(* injected clock; events emitted by an engine instance that was rejected   *)
(* at registration are never re-emitted.                                    *)
(***************************************************************************)
\* The emissions of the orchestrator that the g-th event of an engine caused
emittedAgain(g) == {k \in 1..Len(published) : published[k].cause = g}

\* The instances that are the engines of the registry: one for each registered name,
\* created with that name; every other instance was rejected
registeredInstances ==
    {n \in 1..Len(instances) : instances[n].listenedTo}

C24_EngineEventsAreEmittedAgainOnce ==
    /\ Cardinality(registeredInstances) = Len(engines)
    /\ \A e \in 1..Len(engines) :
          \E n \in registeredInstances :
             /\ instances[n].engine = engines[e].engine
             /\ instances[n].engine.getName = engines[e].name
             /\ \A m \in registeredInstances :
                   (instances[m].engine.getName = engines[e].name) => m = n
    /\ \A g \in 1..Len(engineEmitted) :
          LET instance == instances[engineEmitted[g].instance]
              event == engineEmitted[g].event
          IN  IF engineEmitted[g].instance \in registeredInstances
              THEN /\ Cardinality(emittedAgain(g)) = 1
                   /\ \A k \in emittedAgain(g) :
                         LET again == published[k].event
                         IN  /\ enginesHas(engines, again.engineName)
                             /\ valueOf(getEngine(engines, again.engineName))
                                    = instance.engine
                             /\ again.timestamp = engineEmitted[g].time
                             /\ IF event.type = "LogEvent"
                                THEN /\ again.type = "EngineLogEvent"
                                     /\ again.logLevel = event.logLevel
                                     /\ again.message = event.message
                                     /\ DOMAIN again = {"type", "timestamp", "engineName",
                                                        "logLevel", "message"}
                                ELSE /\ again.type = "EngineProgressEvent"
                                     /\ again.percentComplete = event.percentComplete
                                     /\ DOMAIN again = {"type", "timestamp", "engineName",
                                                        "percentComplete"}
              ELSE emittedAgain(g) = {}
    /\ \A k \in 1..Len(published) :
          (published[k].cause # 0) => published[k].cause \in 1..Len(engineEmitted)

\* After the clock was replaced a registered engine emitted a progress event, which
\* was emitted again, while an instance of the same name had been rejected
C24_Witness ==
    /\ \E g \in 1..Len(engineEmitted) :
          /\ engineEmitted[g].instance \in registeredInstances
          /\ engineEmitted[g].event.type = "ProgressEvent"
          /\ engineEmitted[g].time = 1
          /\ \E k \in emittedAgain(g) : published[k].event.timestamp = 1
    /\ \E n \in 1..Len(instances) : ~instances[n].listenedTo

(***************************************************************************)
(* C30.  Two execute() calls on the same AdvancedRetireJsExecutor whose     *)
(* executions overlap in time (for example from two run calls started       *)
(* without awaiting the first) do not interfere: under every interleaving   *)
(* at the await points, each call scans only the files copied for its own   *)
(* inputs and every finding it returns has its file mapped back to an       *)
(* original file (or zip entry) of that call's own inputs, never undefined  *)
(* and never a file of the other call.                                      *)
(***************************************************************************)
\* The copies that the call p started, of its own inputs
ownCopies(p) == {executions[p].copies[i].temp : i \in 1..Len(executions[p].copies)}

C30_OverlappingCallsDoNotInterfere ==
    \A p \in Calls :
        /\ (executions[p].pc \in {"retired", "returned"}) =>
               executions[p].found \subseteq ownCopies(p)
        /\ (executions[p].pc = "returned") =>
               \A file \in executions[p].findings :
                  /\ isDefined(file)
                  /\ \E i \in 1..Len(executions[p].files) :
                        valueOf(file) = executions[p].files[i]

====
